---- MODULE Spec2Model ----
(***************************************************************************)
(* The Edge AI stream transformer of src/edge-functions/api/edgeai/chat.ts *)
(* (transformToUIStream, processDataLine, finalizeStream, parseToolCall).  *)
(*                                                                         *)
(* Strings are sequences of one-character strings.  Positions follow       *)
(* JavaScript: they are 0-based, indexOf answers -1 when nothing is found, *)
(* and slice(from, to) excludes position `to`.                             *)
(***************************************************************************)
EXTENDS Integers, Sequences, FiniteSets, Bags

VARIABLES
    upstream,           \* content the provider has not sent yet
    data,               \* the data line handed to processDataLine last
    fullContent,        \* chat.ts:327
    pendingBuffer,      \* chat.ts:328
    toolCallJsonBuffer, \* chat.ts:329
    textStarted,        \* chat.ts:334
    reasoningStarted,   \* chat.ts:335
    toolCallStarted,    \* chat.ts:336
    detectedToolName,   \* chat.ts:337
    out,                \* the events enqueued on the output stream, in order
    pc,                 \* "reading" until reader.read() answers done, then "closed"
    nLines,             \* data lines processed so far
    nFinalize,          \* calls of finalizeStream
    sseBuffer,          \* chat.ts:333
    lines,              \* chat.ts:659: the lines of the last read the loop has yet to handle
    received,           \* all that reader.read() has delivered so far
    lineLog,            \* the data handed to processDataLine so far, in order
    canonical,          \* what the same upstream gave when it came in one read
    thrown,             \* chat.ts:129: the error caught by onRequestPost
    document,           \* chat-panel.tsx:373: currentXml, the document given to the engine
    batch,              \* chat-panel.tsx:373: the operations given to the engine
    working,            \* the engine's working copy
    errors,             \* the engine's error list
    opIndex,            \* operations applied so far
    call,               \* chat-panel.tsx:241: the toolCall given to onToolCall
    partialXml,         \* chat-panel.tsx: partialXmlRef.current
    toolOutputs,        \* the calls of addToolOutput, in order
    displayed,          \* the documents given to onDisplayChart, in order
    exported,           \* calls of onExport
    validationError,    \* what onDisplayChart answered last
    literal,            \* the markup the model means
    xmlText,            \* chat.ts:712: the xml text of the recovery
    item,               \* the DynamoDB item IP#ip
    now,                \* the minute it is: Math.floor(Date.now() / 60000)
    calls,              \* the calls of checkAndIncrementRequest and recordTokenUsage
    recorded,           \* the tokens recordTokenUsage has recorded, by minute
    tally,              \* the answers of checkAndIncrementRequest so far, counted
    autoRetryCount,     \* chat-panel.tsx:210: autoRetryCountRef.current
    decision,           \* what sendAutomaticallyWhen answered last, and on which line
    regularRetries,     \* resubmissions outside continuation mode since the last user message
    turns,              \* assistant turns so far
    allocatedPort,      \* proxy.ts:86
    isDev,              \* proxy.ts:122: !app.isPackaged
    find,               \* the call of findAvailablePort under way
    result              \* what the last call of a port function gave

vars == << upstream, data, fullContent, pendingBuffer, toolCallJsonBuffer,
           textStarted, reasoningStarted, toolCallStarted, detectedToolName,
           out, pc, nLines, nFinalize, sseBuffer, lines, received, lineLog,
           canonical, thrown, document, batch, working, errors, opIndex,
           call, partialXml, toolOutputs, displayed, exported, validationError,
           literal, xmlText, item, now, calls, recorded, tally,
           autoRetryCount, decision, regularRetries, turns,
           allocatedPort, isDev, find, result >>

\* the variables of the frame parser, of onRequestPost's catch block and of
\* the Document Operation Engine
frameVars == << sseBuffer, lines, received, lineLog, canonical >>
errorVars == << thrown >>
engineVars == << document, batch, working, errors, opIndex >>

\* the variables of onToolCall
toolVars == << call, partialXml, toolOutputs, displayed, exported, validationError >>

\* the variables of the parts that follow the engine
\* the variables of the unescaping step
escapeVars == << literal, xmlText >>

\* the variables of the quota functions
quotaVars == << item, now, calls, recorded, tally >>

\* the variables of sendAutomaticallyWhen
retryVars == << autoRetryCount, decision, regularRetries, turns >>

\* the variables of the port allocation
portVars == << allocatedPort, isDev, find, result >>

restVars == << retryVars, portVars >>

laterVars == << toolVars, escapeVars, quotaVars, restVars >>

\* Longest run of data lines in one session.
MaxLines == 3

(***************************************************************************)
(* Characters and string primitives                                        *)
(***************************************************************************)
Q == "\""
BS == "\\"
NL == "\n"
NOCHAR == ""
NULL == "null"

WhiteSpace == {" ", NL, "\t", "\r"}

Min(S) == CHOOSE x \in S : \A y \in S : x <= y
Max(S) == CHOOSE x \in S : \A y \in S : x >= y

CharAt(s, i) == IF i >= 0 /\ i < Len(s) THEN s[i + 1] ELSE NOCHAR

\* String.prototype.slice(from, to) for 0 <= from, to <= length
Slice(s, from, to) == SubSeq(s, from + 1, to)

SliceFrom(s, from) == SubSeq(s, from + 1, Len(s))

StartsWithAt(s, i, p) ==
    /\ i >= 0
    /\ i + Len(p) <= Len(s)
    /\ \A k \in 1..Len(p) : s[i + k] = p[k]

Occurrences(s, p) == {i \in 0..(Len(s) - Len(p)) : StartsWithAt(s, i, p)}

\* first occurrence of p at or after position i, -1 when there is none
RECURSIVE FirstFrom(_, _, _)
FirstFrom(s, p, i) ==
    IF i + Len(p) > Len(s) THEN -1
    ELSE IF StartsWithAt(s, i, p) THEN i
    ELSE FirstFrom(s, p, i + 1)

IndexOf(s, p) == FirstFrom(s, p, 0)

LastIndexOf(s, p) == IF Occurrences(s, p) = {} THEN -1 ELSE Max(Occurrences(s, p))

Includes(s, p) == IndexOf(s, p) # -1

EndsWith(s, p) == StartsWithAt(s, Len(s) - Len(p), p)

\* s.trim() is the empty string
IsBlank(s) == \A i \in 1..Len(s) : s[i] \in WhiteSpace

\* first position >= i that holds no white space (the regular expression \s*)
RECURSIVE SkipWs(_, _)
SkipWs(s, i) == IF CharAt(s, i) \in WhiteSpace THEN SkipWs(s, i + 1) ELSE i

\* s.replace(/p/g, r): every occurrence, left to right, without overlap
RECURSIVE ReplaceAll(_, _, _)
ReplaceAll(s, p, r) ==
    IF s = << >> THEN << >>
    ELSE IF StartsWithAt(s, 0, p) THEN r \o ReplaceAll(SliceFrom(s, Len(p)), p, r)
    ELSE << s[1] >> \o ReplaceAll(Tail(s), p, r)

(***************************************************************************)
(* Literals of the source                                                  *)
(***************************************************************************)
QTOOLQ == << Q, "t", "o", "o", "l", Q >>
MARKER == << "{" >> \o QTOOLQ
DISPLAY_DIAGRAM ==
    << "d", "i", "s", "p", "l", "a", "y", "_", "d", "i", "a", "g", "r", "a", "m" >>
EDIT_DIAGRAM == << "e", "d", "i", "t", "_", "d", "i", "a", "g", "r", "a", "m" >>
QXMLQ == << Q, "x", "m", "l", Q >>
QOPERATIONSQ == << Q, "o", "p", "e", "r", "a", "t", "i", "o", "n", "s", Q >>

partialPatterns ==
    << << "{" >>,
       << "{", Q >>,
       << "{", Q, "t" >>,
       << "{", Q, "t", "o" >>,
       << "{", Q, "t", "o", "o" >>,
       << "{", Q, "t", "o", "o", "l" >> >>

(***************************************************************************)
(* detectToolName (chat.ts:348-364)                                        *)
(***************************************************************************)
\* /"tool"\s*:\s*"(display_diagram|edit_diagram)"/ anchored at position i:
\* the captured group, or NULL
ToolRegexAt(s, i) ==
    IF ~StartsWithAt(s, i, QTOOLQ) THEN NULL
    ELSE LET j == SkipWs(s, i + Len(QTOOLQ))
             k == SkipWs(s, j + 1)
         IN  IF CharAt(s, j) # ":" \/ CharAt(s, k) # Q THEN NULL
             ELSE IF StartsWithAt(s, k + 1, DISPLAY_DIAGRAM \o << Q >>)
                  THEN "display_diagram"
             ELSE IF StartsWithAt(s, k + 1, EDIT_DIAGRAM \o << Q >>)
                  THEN "edit_diagram"
             ELSE NULL

\* the group of the leftmost match at or after position i, or NULL
RECURSIVE ToolRegexFrom(_, _)
ToolRegexFrom(s, i) ==
    IF i >= Len(s) THEN NULL
    ELSE IF ToolRegexAt(s, i) # NULL THEN ToolRegexAt(s, i)
    ELSE ToolRegexFrom(s, i + 1)

\* detectToolName without the looser match: the whole assignment is needed
detectToolNameStrict(content) == ToolRegexFrom(content, 0)

detectToolName(content) ==
    IF ToolRegexFrom(content, 0) # NULL
    THEN ToolRegexFrom(content, 0)
    ELSE IF Includes(content, QTOOLQ) /\ Includes(content, DISPLAY_DIAGRAM)
         THEN "display_diagram"
    ELSE IF Includes(content, QTOOLQ) /\ Includes(content, EDIT_DIAGRAM)
         THEN "edit_diagram"
    ELSE NULL

(***************************************************************************)
(* JSON.parse.  Values are tagged: [t |-> "string", v |-> characters],     *)
(* [t |-> "array", v |-> values], [t |-> "object", v |-> members], each    *)
(* member [k |-> characters, val |-> value], and the literals.  Numbers    *)
(* are left out: no input of the model holds a digit or a sign.            *)
(***************************************************************************)
UNDEFINED == [t |-> "undefined", v |-> << >>]

JString(s) == [t |-> "string", v |-> s]
JArray(s) == [t |-> "array", v |-> s]
JObject(s) == [t |-> "object", v |-> s]

Fail == [ok |-> FALSE, val |-> UNDEFINED, pos |-> 0]
Ok(val, pos) == [ok |-> TRUE, val |-> val, pos |-> pos]

\* the character an escape sequence \c stands for, NOCHAR when it is no escape
Unescaped(c) ==
    CASE c = Q -> Q
      [] c = BS -> BS
      [] c = "/" -> "/"
      [] c = "n" -> NL
      [] c = "t" -> "\t"
      [] c = "r" -> "\r"
      [] OTHER -> NOCHAR

ControlChars == {NL, "\t", "\r"}

\* the string whose opening quote precedes position i; acc is what was read
RECURSIVE ParseString(_, _, _)
ParseString(s, i, acc) ==
    LET c == CharAt(s, i) IN
    IF c = NOCHAR \/ c \in ControlChars THEN Fail
    ELSE IF c = Q THEN Ok(JString(acc), i + 1)
    ELSE IF c = BS
         THEN IF Unescaped(CharAt(s, i + 1)) = NOCHAR THEN Fail
              ELSE ParseString(s, i + 2, Append(acc, Unescaped(CharAt(s, i + 1))))
    ELSE ParseString(s, i + 1, Append(acc, c))

LiteralAt(s, i) ==
    IF StartsWithAt(s, i, << "t", "r", "u", "e" >>) THEN Ok([t |-> "true", v |-> << >>], i + 4)
    ELSE IF StartsWithAt(s, i, << "f", "a", "l", "s", "e" >>) THEN Ok([t |-> "false", v |-> << >>], i + 5)
    ELSE IF StartsWithAt(s, i, << "n", "u", "l", "l" >>) THEN Ok([t |-> "null", v |-> << >>], i + 4)
    ELSE Fail

RECURSIVE ParseValue(_, _)
RECURSIVE ParseMembers(_, _, _)
RECURSIVE ParseElements(_, _, _)

\* a value starting at position i (white space skipped by the caller)
ParseValue(s, i) ==
    LET c == CharAt(s, i) IN
    IF c = Q THEN ParseString(s, i + 1, << >>)
    ELSE IF c = "{"
         THEN IF CharAt(s, SkipWs(s, i + 1)) = "}"
              THEN Ok(JObject(<< >>), SkipWs(s, i + 1) + 1)
              ELSE ParseMembers(s, SkipWs(s, i + 1), << >>)
    ELSE IF c = "["
         THEN IF CharAt(s, SkipWs(s, i + 1)) = "]"
              THEN Ok(JArray(<< >>), SkipWs(s, i + 1) + 1)
              ELSE ParseElements(s, SkipWs(s, i + 1), << >>)
    ELSE LiteralAt(s, i)

\* "key" : value, then "," and more members or "}"
ParseMembers(s, i, acc) ==
    IF CharAt(s, i) # Q THEN Fail
    ELSE LET key == ParseString(s, i + 1, << >>) IN
         IF ~key.ok THEN Fail
         ELSE LET colon == SkipWs(s, key.pos) IN
              IF CharAt(s, colon) # ":" THEN Fail
              ELSE LET val == ParseValue(s, SkipWs(s, colon + 1)) IN
                   IF ~val.ok THEN Fail
                   ELSE LET next == SkipWs(s, val.pos)
                            members == Append(acc, [k |-> key.val.v, val |-> val.val])
                        IN  IF CharAt(s, next) = "}" THEN Ok(JObject(members), next + 1)
                            ELSE IF CharAt(s, next) = ","
                                 THEN ParseMembers(s, SkipWs(s, next + 1), members)
                            ELSE Fail

\* value, then "," and more elements or "]"
ParseElements(s, i, acc) ==
    LET val == ParseValue(s, i) IN
    IF ~val.ok THEN Fail
    ELSE LET next == SkipWs(s, val.pos)
             elements == Append(acc, val.val)
         IN  IF CharAt(s, next) = "]" THEN Ok(JArray(elements), next + 1)
             ELSE IF CharAt(s, next) = ","
                  THEN ParseElements(s, SkipWs(s, next + 1), elements)
             ELSE Fail

\* JSON.parse(text): ok is FALSE where JSON.parse throws
JSONParse(text) ==
    LET r == ParseValue(text, SkipWs(text, 0)) IN
    IF r.ok /\ SkipWs(text, r.pos) = Len(text) THEN r ELSE Fail

\* obj.key of a parsed object: the last member of that name, else undefined
Property(obj, key) ==
    LET at == {i \in 1..Len(obj.v) : obj.v[i].k = key} IN
    IF obj.t # "object" \/ at = {} THEN UNDEFINED ELSE obj.v[Max(at)].val


(***************************************************************************)
(* parseToolCall (chat.ts:692-748).  The result is NullCall for null, else *)
(* the xml and operations properties of the object returned.              *)
(***************************************************************************)
\* the result of a match or a search that may find nothing
None == [some |-> FALSE, s |-> << >>]
Some(s) == [some |-> TRUE, s |-> s]

NullCall == [isNull |-> TRUE, xml |-> UNDEFINED, operations |-> UNDEFINED]
ToolCall(xml, operations) == [isNull |-> FALSE, xml |-> xml, operations |-> operations]

\* content.match(/\{[\s\S]*"tool"[\s\S]*\}/): the leftmost "{" that has "tool"
\* and then "}" after it, up to the last "}"; None when nothing matches
StrictJsonMatch(content) ==
    LET lastBrace == LastIndexOf(content, << "}" >>)
        starts == {i \in Occurrences(content, << "{" >>) :
                      \E j \in Occurrences(content, QTOOLQ) :
                          j > i /\ j + Len(QTOOLQ) <= lastBrace}
    IN  IF starts = {} THEN None ELSE Some(Slice(content, Min(starts), lastBrace + 1))

\* end of the first match of /"xml"\s*:\s*"/ (index + length), -1 without match
XmlStart(content) ==
    LET ends == {SkipWs(content, SkipWs(content, i + Len(QXMLQ)) + 1) + 1 :
                    i \in {i \in Occurrences(content, QXMLQ) :
                              /\ CharAt(content, SkipWs(content, i + Len(QXMLQ))) = ":"
                              /\ CharAt(content, SkipWs(content, SkipWs(content, i + Len(QXMLQ)) + 1)) = Q}}
    IN  IF ends = {} THEN -1 ELSE Min(ends)

\* chat.ts:707-710
XmlEnd(content, xmlStart) ==
    IF LastIndexOf(content, << Q, "}" >>) = -1 \/ LastIndexOf(content, << Q, "}" >>) < xmlStart
    THEN LastIndexOf(content, << "}" >>)
    ELSE LastIndexOf(content, << Q, "}" >>)

\* chat.ts:714-716
StripTrailingQuote(xml) ==
    IF EndsWith(xml, << Q >>) THEN Slice(xml, 0, Len(xml) - 1) ELSE xml

\* chat.ts:718-721
UnescapeXml(xml) ==
    ReplaceAll(ReplaceAll(ReplaceAll(xml, << BS, Q >>, << Q >>),
                          << BS, "n" >>, << NL >>),
               << BS, BS >>, << BS >>)

\* chat.ts:700-730: the recovered markup, None when this branch returns nothing
RecoverXml(content) ==
    IF ~Includes(content, DISPLAY_DIAGRAM) \/ XmlStart(content) = -1 THEN None
    ELSE LET xmlStart == XmlStart(content)
             xmlEnd == XmlEnd(content, xmlStart)
         IN  IF xmlEnd > xmlStart
             THEN LET xml == UnescapeXml(StripTrailingQuote(Slice(content, xmlStart, xmlEnd)))
                  IN  IF IsBlank(xml) THEN None ELSE Some(xml)
             ELSE None

\* the group of /"operations"\s*:\s*(\[[\s\S]*?\])/, None without match
OperationsMatch(content) ==
    LET opens == {SkipWs(content, SkipWs(content, i + Len(QOPERATIONSQ)) + 1) :
                     i \in {i \in Occurrences(content, QOPERATIONSQ) :
                               /\ CharAt(content, SkipWs(content, i + Len(QOPERATIONSQ))) = ":"
                               /\ CharAt(content, SkipWs(content, SkipWs(content, i + Len(QOPERATIONSQ)) + 1)) = "["}}
        matches == {b \in opens : \E e \in Occurrences(content, << "]" >>) : e > b}
    IN  IF matches = {} THEN None
        ELSE LET b == Min(matches)
                 e == Min({e \in Occurrences(content, << "]" >>) : e > b})
             IN  Some(Slice(content, b, e + 1))

\* chat.ts:731-745: the recovered operations, UNDEFINED when this branch returns nothing
RecoverOperations(content) ==
    LET opsMatch == OperationsMatch(content)
        operations == JSONParse(opsMatch.s)
    IN  IF ~Includes(content, EDIT_DIAGRAM) \/ ~opsMatch.some THEN UNDEFINED
        ELSE IF operations.ok THEN operations.val
        ELSE UNDEFINED

parseToolCall(content) ==
    LET jsonMatch == StrictJsonMatch(content)
        parsed == JSONParse(jsonMatch.s)
        xml == RecoverXml(content)
        operations == RecoverOperations(content)
    IN  IF ~jsonMatch.some THEN NullCall
        ELSE IF parsed.ok
             THEN ToolCall(Property(parsed.val, << "x", "m", "l" >>),
                           Property(parsed.val,
                                    << "o", "p", "e", "r", "a", "t", "i", "o", "n", "s" >>))
        ELSE IF xml.some THEN ToolCall(JString(xml.s), UNDEFINED)
        ELSE IF operations.t # "undefined" THEN ToolCall(UNDEFINED, operations)
        ELSE NullCall

(***************************************************************************)
(* Output events (chat.ts:343-345).  JSON.stringify leaves out a property  *)
(* whose value is undefined: the input of tool-input-available is the      *)
(* sequence of the members that are written.                               *)
(***************************************************************************)
textId == "text"
reasoningId == "reasoning"
toolCallId == "call"

Start == [type |-> "start"]
Finish == [type |-> "finish", finishReason |-> "stop"]
TextStart == [type |-> "text-start", id |-> textId]
TextDelta(text) == [type |-> "text-delta", id |-> textId, delta |-> text]
TextEnd == [type |-> "text-end", id |-> textId]
ReasoningStart == [type |-> "reasoning-start", id |-> reasoningId]
ReasoningDelta(text) == [type |-> "reasoning-delta", id |-> reasoningId, delta |-> text]
ReasoningEnd == [type |-> "reasoning-end", id |-> reasoningId]
ToolInputStart(toolName) ==
    [type |-> "tool-input-start", toolCallId |-> toolCallId, toolName |-> toolName]
ToolInputDelta(text) ==
    [type |-> "tool-input-delta", toolCallId |-> toolCallId, inputTextDelta |-> text]
ToolInputAvailable(toolName, input) ==
    [type |-> "tool-input-available", toolCallId |-> toolCallId,
     toolName |-> toolName, input |-> input]

Stringified(key, val) ==
    IF val.t = "undefined" THEN << >> ELSE << [k |-> key, val |-> val] >>


(***************************************************************************)
(* processDataLine (chat.ts:367-543) on a line whose JSON holds a delta:   *)
(* d.reasoning is delta.reasoning_content and d.content is delta.content,  *)
(* the empty string when the property is absent.                           *)
(***************************************************************************)
\* ReasoningChunks that opens the reasoning span on every delta
ReasoningChunksRestart(started, text) ==
    IF text # << >> /\ ~IsBlank(text)
    THEN << ReasoningStart, ReasoningDelta(text) >>
    ELSE << >>

\* chat.ts:386-406
ReasoningChunks(started, text) ==
    IF text # << >> /\ ~IsBlank(text)
    THEN (IF ~started THEN << ReasoningStart >> ELSE << >>) \o << ReasoningDelta(text) >>
    ELSE << >>

\* TextChunks that starts the span with every text
TextChunksRestart(started, text) ==
    IF ~IsBlank(text) THEN << TextStart, TextDelta(text) >> ELSE << >>

\* chat.ts:444-461, 516-533, 600-612: text-start on the first text, then the text
TextChunks(started, text) ==
    IF ~IsBlank(text)
    THEN (IF ~started THEN << TextStart >> ELSE << >>) \o << TextDelta(text) >>
    ELSE << >>

\* KeepFromIndex with the longest partial pattern forgotten
KeepFromIndexShortList(buffer) ==
    LET ending == {i \in 1..(Len(partialPatterns) - 1) : EndsWith(buffer, partialPatterns[i])}
    IN  IF ending = {} THEN Len(buffer)
        ELSE Len(buffer) - Len(partialPatterns[Min(ending)])

\* chat.ts:504-512
KeepFromIndex(buffer) ==
    LET ending == {i \in 1..Len(partialPatterns) : EndsWith(buffer, partialPatterns[i])}
    IN  IF ending = {} THEN Len(buffer)
        ELSE Len(buffer) - Len(partialPatterns[Min(ending)])

\* TextEndChunks that leaves the text span open
TextEndChunksNever(open) == << >>

\* chat.ts:465-470: the text span is ended if it is open
TextEndChunks(open) == IF open THEN << TextEnd >> ELSE << >>

\* FirstFragment relaying the delta alone, without what was buffered before it
FirstFragmentDeltaOnly(afterToolStart, content) == content

\* chat.ts:483-490: the first fragment relayed, given the buffer from the marker on
FirstFragment(afterToolStart, content) == afterToolStart

\* chat.ts:385-406 alone: the line holds no content
ReasoningOnly(d) ==
    /\ d.content = << >>
    /\ out' = out \o ReasoningChunks(reasoningStarted, d.reasoning)
    /\ UNCHANGED << fullContent, pendingBuffer, toolCallJsonBuffer, textStarted,
                    toolCallStarted, detectedToolName >>

\* RelayDelta that sends the delta as narration
RelayDeltaAsText(d) ==
    /\ d.content # << >>
    /\ toolCallStarted
    /\ fullContent' = fullContent \o d.content
    /\ toolCallJsonBuffer' = toolCallJsonBuffer \o d.content
    /\ out' = out \o ReasoningChunks(reasoningStarted, d.reasoning)
                  \o << TextDelta(d.content) >>
    /\ UNCHANGED << pendingBuffer, textStarted, toolCallStarted, detectedToolName >>

\* chat.ts:412-423
RelayDelta(d) ==
    /\ d.content # << >>
    /\ toolCallStarted
    /\ fullContent' = fullContent \o d.content
    /\ toolCallJsonBuffer' = toolCallJsonBuffer \o d.content
    /\ out' = out \o ReasoningChunks(reasoningStarted, d.reasoning)
                  \o << ToolInputDelta(d.content) >>
    /\ UNCHANGED << pendingBuffer, textStarted, toolCallStarted, detectedToolName >>

\* chat.ts:436-492
DetectToolCall(d) ==
    LET buffer == pendingBuffer \o d.content
        toolJsonStart == IndexOf(buffer, MARKER)
        afterToolStart == SliceFrom(buffer, toolJsonStart)
        toolName == detectToolName(afterToolStart)
        textBefore == Slice(buffer, 0, toolJsonStart)
        text == IF toolJsonStart > 0 THEN TextChunks(textStarted, textBefore) ELSE << >>
    IN  /\ d.content # << >>
        /\ ~toolCallStarted
        /\ toolJsonStart # -1
        /\ toolName # NULL
        /\ fullContent' = fullContent \o d.content
        /\ textStarted' = FALSE
        /\ toolCallStarted' = TRUE
        /\ detectedToolName' = toolName
        /\ toolCallJsonBuffer' = afterToolStart
        /\ pendingBuffer' = << >>
        /\ out' = out \o ReasoningChunks(reasoningStarted, d.reasoning)
                      \o text
                      \o TextEndChunks(textStarted \/ text # << >>)
                      \o << ToolInputStart(toolName),
                            ToolInputDelta(FirstFragment(afterToolStart, d.content)) >>

\* chat.ts:431-435, 493: the marker is there, the tool name is not
KeepBuffering(d) ==
    LET buffer == pendingBuffer \o d.content
        toolJsonStart == IndexOf(buffer, MARKER)
    IN  /\ d.content # << >>
        /\ ~toolCallStarted
        /\ toolJsonStart # -1
        /\ detectToolName(SliceFrom(buffer, toolJsonStart)) = NULL
        /\ fullContent' = fullContent \o d.content
        /\ pendingBuffer' = buffer
        /\ out' = out \o ReasoningChunks(reasoningStarted, d.reasoning)
        /\ UNCHANGED << toolCallJsonBuffer, textStarted, toolCallStarted, detectedToolName >>

\* chat.ts:494-536
StreamSafeText(d) ==
    LET buffer == pendingBuffer \o d.content
        keepFromIndex == KeepFromIndex(buffer)
        safeText == Slice(buffer, 0, keepFromIndex)
        text == IF keepFromIndex > 0 THEN TextChunks(textStarted, safeText) ELSE << >>
    IN  /\ d.content # << >>
        /\ ~toolCallStarted
        /\ IndexOf(buffer, MARKER) = -1
        /\ fullContent' = fullContent \o d.content
        /\ textStarted' = (textStarted \/ text # << >>)
        /\ pendingBuffer' = SliceFrom(buffer, keepFromIndex)
        /\ out' = out \o ReasoningChunks(reasoningStarted, d.reasoning) \o text
        /\ UNCHANGED << toolCallJsonBuffer, toolCallStarted, detectedToolName >>

processDataLine(d) ==
    /\ data' = d
    /\ reasoningStarted' =
           (reasoningStarted \/ ReasoningChunks(reasoningStarted, d.reasoning) # << >>)
    /\ \/ ReasoningOnly(d)
       \/ RelayDelta(d)
       \/ DetectToolCall(d)
       \/ KeepBuffering(d)
       \/ StreamSafeText(d)

(***************************************************************************)
(* finalizeStream (chat.ts:546-622)                                        *)
(***************************************************************************)
\* chat.ts:557-584
ToolInput(toolName, toolCall) ==
    IF ~toolCall.isNull
    THEN IF toolName = "display_diagram"
         THEN Stringified("xml", toolCall.xml)
         ELSE Stringified("operations", toolCall.operations)
    ELSE IF toolName = "display_diagram"
         THEN Stringified("xml", JString(<< >>))
         ELSE Stringified("operations", JArray(<< >>))

\* FinalChunks without the branch that flushes pendingBuffer
FinalChunksNoFlush ==
    IF toolCallStarted /\ detectedToolName # NULL
    THEN << ToolInputAvailable(detectedToolName,
                               ToolInput(detectedToolName, parseToolCall(toolCallJsonBuffer))) >>
    ELSE IF ~textStarted /\ fullContent # << >>
         THEN IF ~IsBlank(fullContent)
              THEN << TextStart, TextDelta(fullContent), TextEnd >>
              ELSE << >>
    ELSE IF textStarted THEN << TextEnd >>
    ELSE << >>

\* chat.ts:556-618: the events of the branch taken
FinalChunks ==
    IF toolCallStarted /\ detectedToolName # NULL
    THEN << ToolInputAvailable(detectedToolName,
                               ToolInput(detectedToolName, parseToolCall(toolCallJsonBuffer))) >>
    ELSE IF ~textStarted /\ fullContent # << >>
         THEN IF ~IsBlank(fullContent)
              THEN << TextStart, TextDelta(fullContent), TextEnd >>
              ELSE << >>
    ELSE IF pendingBuffer # << >> /\ ~toolCallStarted
         THEN TextChunks(textStarted, pendingBuffer)
                  \o (IF textStarted \/ ~IsBlank(pendingBuffer) THEN << TextEnd >> ELSE << >>)
    ELSE IF textStarted THEN << TextEnd >>
    ELSE << >>

\* FinishChunks that forgets the finish event after a tool call
FinishChunksTextOnly == IF toolCallStarted THEN << >> ELSE << Finish >>

\* chat.ts:620
FinishChunks == << Finish >>

\* chat.ts:598-604: textStarted when finalizeStream returns
FinalTextStarted ==
    IF /\ ~(toolCallStarted /\ detectedToolName # NULL)
       /\ ~(~textStarted /\ fullContent # << >>)
       /\ pendingBuffer # << >> /\ ~toolCallStarted
       /\ ~IsBlank(pendingBuffer)
    THEN TRUE
    ELSE textStarted

finalizeStream ==
    /\ nFinalize' = nFinalize + 1
    /\ textStarted' = FinalTextStarted
    /\ out' = out \o (IF reasoningStarted THEN << ReasoningEnd >> ELSE << >>)
                  \o FinalChunks
                  \o FinishChunks

(***************************************************************************)
(* transformToUIStream (chat.ts:324-686): the read loop.  Every read hands *)
(* over one data line; the provider may cut the content anywhere and may   *)
(* end the stream before all of it was sent.                               *)
(***************************************************************************)
\* no session has run on the upstream before
NoCanonical == [known |-> FALSE, out |-> << >>, lineLog |-> << >>]

\* nothing was thrown
NoError == [thrown |-> FALSE, isError |-> FALSE, message |-> << >>]

\* the frame parser before the first read (chat.ts:333)
FramesIdle ==
    /\ sseBuffer = << >>
    /\ lines = << >>
    /\ received = << >>
    /\ lineLog = << >>
    /\ canonical = NoCanonical

\* no request has failed
ErrorIdle == thrown = NoError

\* the engine is not called
EngineIdle ==
    /\ document = << >>
    /\ batch = << >>
    /\ working = << >>
    /\ errors = << >>
    /\ opIndex = 0

NoToolCall == [toolName |-> NULL, input |-> NULL]

\* onToolCall is not called
ToolIdle ==
    /\ call = NoToolCall
    /\ partialXml = << >>
    /\ toolOutputs = << >>
    /\ displayed = << >>
    /\ exported = 0
    /\ validationError = NULL

\* the parts that follow the engine are at rest
\* nothing is unescaped
EscapeIdle == literal = << >> /\ xmlText = << >>

\* no quota function is called
QuotaIdle ==
    /\ item = << >>
    /\ now = 0
    /\ calls = << >>
    /\ recorded = << >>
    /\ tally = << >>

\* what sendAutomaticallyWhen returned, and where
Decision(send, why) == [send |-> send, why |-> why]

NoDecision == Decision(FALSE, "not called")

\* no turn has ended
RetryIdle ==
    /\ autoRetryCount = 0
    /\ decision = NoDecision
    /\ regularRetries = 0
    /\ turns = 0

\* proxy.ts:86: allocatedPort is null
NO_PORT == 0

\* no call of findAvailablePort is under way
NoFind == [at |-> "idle", reuseExisting |-> FALSE, port |-> NO_PORT, attempt |-> 0,
           cached |-> NO_PORT]

\* what a call of a port function gave: the function, whether it threw, the
\* value returned, allocatedPort when it ended; for findAvailablePort also
\* its argument, allocatedPort when it began, and whether the cached port was
\* probed and found available
Result(fn, threw, value, after, reuseExisting, cached, stillAvailable) ==
    [fn |-> fn, threw |-> threw, value |-> value, after |-> after,
     reuseExisting |-> reuseExisting, cached |-> cached, stillAvailable |-> stillAvailable]

NoResult == Result("none", FALSE, NO_PORT, NO_PORT, FALSE, NO_PORT, FALSE)

\* no port function is called
PortIdle ==
    /\ allocatedPort = NO_PORT
    /\ isDev = FALSE
    /\ find = NoFind
    /\ result = NoResult

RestIdle == RetryIdle /\ PortIdle

LaterIdle == ToolIdle /\ EscapeIdle /\ QuotaIdle /\ RestIdle

\* reasoning_content values: a word and white space alone
ReasoningTexts == { << "r" >>, << " " >> }

\* what the model may answer; the stream may end after any prefix of it
Contents ==
    { \* a b{"tool":"display_diagram","xml":"<"}"}
      \* (strict parse up to the first "}", recovery on the whole)
      << "a", " ", "b" >> \o MARKER \o << ":", Q >> \o DISPLAY_DIAGRAM \o << Q, "," >>
          \o QXMLQ \o << ":", Q, "<", Q, "}", Q, "}" >>,
      \* \n{"tool": "edit_diagram"}}
      \* (strict parse up to the first "}", nothing to recover on the whole)
      << NL >> \o MARKER \o << ":", " ", Q >> \o EDIT_DIAGRAM \o << Q, "}", "}" >>,
      \* a {"to b{"tool":"y"}
      \* (a marker begun and dropped, then a marker with no known tool)
      << "a", " ", "{", Q, "t", "o", " ", "b" >> \o MARKER \o << ":", Q, "y", Q, "}" >> }

Init ==
    /\ upstream \in Contents
    /\ data = [reasoning |-> << >>, content |-> << >>]
    /\ fullContent = << >>
    /\ pendingBuffer = << >>
    /\ toolCallJsonBuffer = << >>
    /\ textStarted = FALSE
    /\ reasoningStarted = FALSE
    /\ toolCallStarted = FALSE
    /\ detectedToolName = NULL
    /\ out = << Start >>
    /\ pc = "reading"
    /\ nLines = 0
    /\ nFinalize = 0
    /\ FramesIdle
    /\ ErrorIdle
    /\ EngineIdle
    /\ LaterIdle

\* chat.ts:652-673: a read that holds one data line with content
ReadContent ==
    /\ pc = "reading"
    /\ nLines < MaxLines
    /\ \E n \in 1..Len(upstream) :
           /\ processDataLine([reasoning |-> << >>, content |-> SubSeq(upstream, 1, n)])
           /\ upstream' = SubSeq(upstream, n + 1, Len(upstream))
    /\ nLines' = nLines + 1
    /\ UNCHANGED << pc, nFinalize, frameVars, errorVars, engineVars, laterVars >>

\* chat.ts:652-673: a read that holds one data line with reasoning_content
ReadReasoning ==
    /\ pc = "reading"
    /\ nLines < MaxLines
    /\ \E r \in ReasoningTexts :
           processDataLine([reasoning |-> r, content |-> << >>])
    /\ nLines' = nLines + 1
    /\ UNCHANGED << upstream, pc, nFinalize, frameVars, errorVars, engineVars, laterVars >>

\* chat.ts:652-673: the line on which the provider turns from reasoning to the
\* answer holds both properties
ReadBoth ==
    /\ pc = "reading"
    /\ nLines < MaxLines
    /\ fullContent = << >>
    /\ \E r \in {r \in ReasoningTexts : ~IsBlank(r)}, n \in 1..Len(upstream) :
           /\ processDataLine([reasoning |-> r, content |-> SubSeq(upstream, 1, n)])
           /\ upstream' = SubSeq(upstream, n + 1, Len(upstream))
    /\ nLines' = nLines + 1
    /\ UNCHANGED << pc, nFinalize, frameVars, errorVars, engineVars, laterVars >>

\* chat.ts:641-650: the upstream is done
StreamDone ==
    /\ pc = "reading"
    /\ finalizeStream
    /\ pc' = "closed"
    /\ UNCHANGED << upstream, data, fullContent, pendingBuffer, toolCallJsonBuffer,
                    reasoningStarted, toolCallStarted, detectedToolName, nLines,
                    frameVars, errorVars, engineVars, laterVars >>

Next == ReadContent \/ ReadReasoning \/ ReadBoth \/ StreamDone

Spec == Init /\ [][Next]_vars


(***************************************************************************)
(* The finalizer on whole payloads: the provider sends one tool call in    *)
(* one delta and ends the stream.  The markup of a display_diagram call is *)
(* any string of at most MaxXmlLen characters.                             *)
(***************************************************************************)
\* Longest markup of a payload.
MaxXmlLen == 4

XmlChars == {"<", Q, BS, "n"}

RECURSIVE StringsOfLen(_)
StringsOfLen(n) ==
    IF n = 0 THEN {<< >>}
    ELSE {Append(s, c) : s \in StringsOfLen(n - 1), c \in XmlChars}

Markups == UNION {StringsOfLen(n) : n \in 1..MaxXmlLen}

\* {"tool":"display_diagram","xml":"
DisplayHead ==
    MARKER \o << ":", Q >> \o DISPLAY_DIAGRAM \o << Q, "," >> \o QXMLQ \o << ":", Q >>

\* the payload as the model writes it when it does not escape the markup
DisplayPayloads == {DisplayHead \o xml \o << Q, "}" >> : xml \in Markups}

\* payloads that hold the tool name and neither "xml" nor "operations"
BarePayloads ==
    { MARKER \o << ":", Q >> \o DISPLAY_DIAGRAM \o << Q, "}" >>,
      MARKER \o << ":", Q >> \o DISPLAY_DIAGRAM \o << Q >>,
      MARKER \o << ":", Q >> \o DISPLAY_DIAGRAM \o << Q, ",", Q, "n", Q, ":", Q, "<", Q, "<", Q, "}" >>,
      MARKER \o << ":", Q >> \o EDIT_DIAGRAM \o << Q, "}" >>,
      MARKER \o << ":", Q >> \o EDIT_DIAGRAM \o << Q >>,
      MARKER \o << ":", Q >> \o EDIT_DIAGRAM \o << Q, ",", Q, "n", Q, ":", Q, "<", Q, "<", Q, "}" >> }

\* the arrays a model may write as the operations of an edit_diagram call,
\* well formed or not
OperationArrays ==
    {
      \* []
      << "[", "]" >>,
      \* [{"cell_id":"a"}]
      << "[", "{", "\"", "c", "e", "l", "l", "_", "i", "d", "\"", ":", "\"",
         "a", "\"", "}", "]" >>,
      \* [{"cell_id":"a"},{"cell_id":"b"}]
      << "[", "{", "\"", "c", "e", "l", "l", "_", "i", "d", "\"", ":", "\"",
         "a", "\"", "}", ",", "{", "\"", "c", "e", "l", "l", "_", "i", "d",
         "\"", ":", "\"", "b", "\"", "}", "]" >>,
      \* [["a"]]
      << "[", "[", "\"", "a", "\"", "]", "]" >>,
      \* [{"cell_id":"]"}]
      << "[", "{", "\"", "c", "e", "l", "l", "_", "i", "d", "\"", ":", "\"",
         "]", "\"", "}", "]" >>,
      \* [{"cell_id":"a"]
      << "[", "{", "\"", "c", "e", "l", "l", "_", "i", "d", "\"", ":", "\"",
         "a", "\"", "]" >>,
      \* [{"cell_id":a}]
      << "[", "{", "\"", "c", "e", "l", "l", "_", "i", "d", "\"", ":", "a",
         "}", "]" >> }

\* {"tool":"edit_diagram","operations": and the same after a field whose
\* value holds a quote that is not escaped
EditHeads ==
    { MARKER \o << ":", Q >> \o EDIT_DIAGRAM \o << Q, "," >> \o QOPERATIONSQ \o << ":" >>,
      MARKER \o << ":", Q >> \o EDIT_DIAGRAM \o << Q, ",", Q, "n", Q, ":", Q, "<", Q, "<", Q, "," >>
          \o QOPERATIONSQ \o << ":", " " >> }

\* what follows the array: the closing brace, one brace too many, nothing
EditTails == { << "}" >>, << "}", "}" >>, << >> }

\* the payloads of an edit_diagram call
EditPayloads ==
    {head \o array \o tail : head \in EditHeads, array \in OperationArrays, tail \in EditTails}

InitPayload ==
    /\ upstream \in DisplayPayloads \cup BarePayloads \cup EditPayloads
    /\ data = [reasoning |-> << >>, content |-> << >>]
    /\ fullContent = << >>
    /\ pendingBuffer = << >>
    /\ toolCallJsonBuffer = << >>
    /\ textStarted = FALSE
    /\ reasoningStarted = FALSE
    /\ toolCallStarted = FALSE
    /\ detectedToolName = NULL
    /\ out = << Start >>
    /\ pc = "reading"
    /\ nLines = 0
    /\ nFinalize = 0
    /\ FramesIdle
    /\ ErrorIdle
    /\ EngineIdle
    /\ LaterIdle

\* chat.ts:652-673: a read that holds all of the content in one data line
ReadWhole ==
    /\ pc = "reading"
    /\ upstream # << >>
    /\ processDataLine([reasoning |-> << >>, content |-> upstream])
    /\ upstream' = << >>
    /\ nLines' = nLines + 1
    /\ UNCHANGED << pc, nFinalize, frameVars, errorVars, engineVars, laterVars >>

NextPayload == ReadWhole \/ StreamDone

SpecPayload == InitPayload /\ [][NextPayload]_vars


(***************************************************************************)
(* The Delta Frame Parser (chat.ts:367-383, 636-685): the reads cut the    *)
(* upstream bytes anywhere, the loop splits them into lines and hands the  *)
(* data of every "data:" line to processDataLine.  The consumer may cancel *)
(* and the upstream may fail while the loop waits for a read.  A session   *)
(* that ended is followed by a second one on the same bytes.               *)
(***************************************************************************)
DATA_PREFIX == << "d", "a", "t", "a", ":" >>
DONE == << "[", "D", "O", "N", "E", "]" >>
CHOICES == << "c", "h", "o", "i", "c", "e", "s" >>
DELTA == << "d", "e", "l", "t", "a" >>
CONTENT == << "c", "o", "n", "t", "e", "n", "t" >>
REASONING_CONTENT == << "r", "e", "a", "s", "o", "n", "i", "n", "g", "_" >> \o CONTENT

\* String.prototype.trim
RECURSIVE TrimStart(_)
TrimStart(s) == IF s # << >> /\ Head(s) \in WhiteSpace THEN TrimStart(Tail(s)) ELSE s

RECURSIVE TrimEnd(_)
TrimEnd(s) ==
    IF s # << >> /\ s[Len(s)] \in WhiteSpace THEN TrimEnd(SubSeq(s, 1, Len(s) - 1)) ELSE s

Trim(s) == TrimEnd(TrimStart(s))

\* s.split("\n")
RECURSIVE Split(_)
Split(s) ==
    LET feeds == {i \in 1..Len(s) : s[i] = NL} IN
    IF feeds = {} THEN << s >>
    ELSE << SubSeq(s, 1, Min(feeds) - 1) >> \o Split(SubSeq(s, Min(feeds) + 1, Len(s)))

\* chat.ts:660-667: the data of a line, None for a line the loop passes over
DataOf(line) ==
    IF Trim(line) = << >> \/ ~StartsWithAt(Trim(line), 0, DATA_PREFIX) THEN None
    ELSE Some(Trim(SliceFrom(Trim(line), Len(DATA_PREFIX))))

\* value?.[0] of a parsed value
FirstElement(val) ==
    IF val.t = "array" /\ val.v # << >> THEN val.v[1] ELSE UNDEFINED

\* a property that holds text, the empty string when it is absent (the
\* frames of the model hold nothing but strings there)
TextProperty(obj, key) ==
    IF Property(obj, key).t = "string" THEN Property(obj, key).v ELSE << >>

NoDelta == [some |-> FALSE, reasoning |-> << >>, content |-> << >>]

\* DeltaOf taking what is no JSON for the text of the answer
DeltaOfRawText(text) ==
    LET parsed == JSONParse(text)
        delta == Property(FirstElement(Property(parsed.val, CHOICES)), DELTA)
    IN  IF text = DONE THEN NoDelta
        ELSE IF ~parsed.ok THEN [some |-> TRUE, reasoning |-> << >>, content |-> text]
        ELSE IF delta.t # "object" THEN NoDelta
        ELSE [some |-> TRUE,
              reasoning |-> TextProperty(delta, REASONING_CONTENT),
              content |-> TextProperty(delta, CONTENT)]

\* chat.ts:370-383, 538-540: the delta of a data line; none for [DONE], for
\* what JSON.parse rejects and for a record without choices[0].delta
DeltaOf(text) ==
    LET parsed == JSONParse(text)
        delta == Property(FirstElement(Property(parsed.val, CHOICES)), DELTA)
    IN  IF text = DONE THEN NoDelta
        ELSE IF ~parsed.ok THEN NoDelta
        ELSE IF delta.t # "object" THEN NoDelta
        ELSE [some |-> TRUE,
              reasoning |-> TextProperty(delta, REASONING_CONTENT),
              content |-> TextProperty(delta, CONTENT)]

\* the JSON text of a string
RECURSIVE Quoted(_)
Quoted(s) ==
    IF s = << >> THEN << >>
    ELSE (IF Head(s) \in {Q, BS} THEN << BS, Head(s) >>
          ELSE IF Head(s) = NL THEN << BS, "n" >>
          ELSE << Head(s) >>) \o Quoted(Tail(s))

\* data: {"choices":[{"delta":{"<key>":"<text>"}}]}
Frame(key, text) ==
    DATA_PREFIX \o << " ", "{", Q >> \o CHOICES \o << Q, ":", "[", "{", Q >> \o DELTA
        \o << Q, ":", "{", Q >> \o key \o << Q, ":", Q >> \o Quoted(text)
        \o << Q, "}", "}", "]", "}" >>

\* the bytes a provider may send
Streams ==
    { \* narration and a tool call, with noise between the frames
      Frame(CONTENT, << "a", "{" >>) \o << NL >>
          \o DATA_PREFIX \o << " ", "{", "b", "a", "d", NL >>
          \o DATA_PREFIX \o << " " >> \o DONE \o << NL, NL >>
          \o Frame(CONTENT, QTOOLQ \o << ":", Q >> \o EDIT_DIAGRAM \o << Q, "}" >>) \o << NL >>
          \o DATA_PREFIX \o DONE \o << " ", NL >>
          \o Frame(CONTENT, << "}" >>) \o << NL >>,
      \* reasoning, lines ended by CR LF, lines without data, a record without
      \* delta and a last line that no line feed ends
      Frame(REASONING_CONTENT, << "r" >>) \o << "\r", NL >>
          \o << ":", "p", NL >>
          \o DATA_PREFIX \o << "{", Q >> \o CHOICES \o << Q, ":", "[", "]", "}", "\r", NL >>
          \o Frame(CONTENT, << "b", "{", Q >>) \o << NL, NL >>
          \o DATA_PREFIX \o << "n", "u", "l", "l", NL >>
          \o Frame(CONTENT, << "c" >>) }

InitFrames ==
    /\ upstream \in Streams
    /\ data = [reasoning |-> << >>, content |-> << >>]
    /\ fullContent = << >>
    /\ pendingBuffer = << >>
    /\ toolCallJsonBuffer = << >>
    /\ textStarted = FALSE
    /\ reasoningStarted = FALSE
    /\ toolCallStarted = FALSE
    /\ detectedToolName = NULL
    /\ out = << Start >>
    /\ pc = "reading"
    /\ nLines = 0
    /\ nFinalize = 0
    /\ FramesIdle
    /\ ErrorIdle
    /\ EngineIdle
    /\ LaterIdle

\* SplitChunk that forgets the fragment the read before left
SplitChunkNoCarry(buffer, chunk) == Split(chunk)

\* chat.ts:653-656: the pieces of the buffer and the chunk
SplitChunk(buffer, chunk) == Split(buffer \o chunk)

\* chat.ts:639, 652-657: a read delivers some of the bytes
ReadChunk ==
    /\ pc = "reading"
    /\ lines = << >>
    /\ \E n \in 1..Len(upstream) :
           LET chunk == SubSeq(upstream, 1, n)
               pieces == SplitChunk(sseBuffer, chunk)
           IN  /\ lines' = SubSeq(pieces, 1, Len(pieces) - 1)
               /\ sseBuffer' = pieces[Len(pieces)]
               /\ received' = received \o chunk
               /\ upstream' = SubSeq(upstream, n + 1, Len(upstream))
    /\ UNCHANGED << data, fullContent, pendingBuffer, toolCallJsonBuffer, textStarted,
                    reasoningStarted, toolCallStarted, detectedToolName, out, pc,
                    nLines, nFinalize, lineLog, canonical, errorVars, engineVars, laterVars >>

\* chat.ts:659-665: the loop passes over a line that holds no data
PassLine ==
    /\ pc = "reading"
    /\ lines # << >>
    /\ ~DataOf(Head(lines)).some
    /\ lines' = Tail(lines)
    /\ UNCHANGED << upstream, data, fullContent, pendingBuffer, toolCallJsonBuffer,
                    textStarted, reasoningStarted, toolCallStarted, detectedToolName,
                    out, pc, nLines, nFinalize, sseBuffer, received, lineLog,
                    canonical, errorVars, engineVars, laterVars >>

\* chat.ts:370-383, 538-542: processDataLine returns no chunk and changes nothing
DropLine ==
    /\ pc = "reading"
    /\ lines # << >>
    /\ DataOf(Head(lines)).some
    /\ ~DeltaOf(DataOf(Head(lines)).s).some
    /\ lines' = Tail(lines)
    /\ lineLog' = Append(lineLog, DataOf(Head(lines)).s)
    /\ data' = [reasoning |-> << >>, content |-> << >>]
    /\ nLines' = nLines + 1
    /\ UNCHANGED << upstream, fullContent, pendingBuffer, toolCallJsonBuffer,
                    textStarted, reasoningStarted, toolCallStarted, detectedToolName,
                    out, pc, nFinalize, sseBuffer, received, canonical, errorVars,
                    engineVars, laterVars >>

\* chat.ts:667-672: the data of the line goes to processDataLine
HandleLine ==
    /\ pc = "reading"
    /\ lines # << >>
    /\ DataOf(Head(lines)).some
    /\ DeltaOf(DataOf(Head(lines)).s).some
    /\ processDataLine([reasoning |-> DeltaOf(DataOf(Head(lines)).s).reasoning,
                        content |-> DeltaOf(DataOf(Head(lines)).s).content])
    /\ lines' = Tail(lines)
    /\ lineLog' = Append(lineLog, DataOf(Head(lines)).s)
    /\ nLines' = nLines + 1
    /\ UNCHANGED << upstream, pc, nFinalize, sseBuffer, received, canonical, errorVars,
                    engineVars, laterVars >>

\* chat.ts:641-650: the upstream is done when all its bytes were read
UpstreamDone ==
    /\ upstream = << >>
    /\ lines = << >>
    /\ StreamDone

\* chat.ts:675-678: reader.read() rejects; the output stream is put in error
ReadFails ==
    /\ pc = "reading"
    /\ lines = << >>
    /\ pc' = "errored"
    /\ UNCHANGED << upstream, data, fullContent, pendingBuffer, toolCallJsonBuffer,
                    textStarted, reasoningStarted, toolCallStarted, detectedToolName,
                    out, nLines, nFinalize, frameVars, errorVars, engineVars, laterVars >>

\* chat.ts:682-684: the consumer cancels while the loop waits for a read
Cancel ==
    /\ pc = "reading"
    /\ lines = << >>
    /\ pc' = "cancelled"
    /\ UNCHANGED << upstream, data, fullContent, pendingBuffer, toolCallJsonBuffer,
                    textStarted, reasoningStarted, toolCallStarted, detectedToolName,
                    out, nLines, nFinalize, frameVars, errorVars, engineVars, laterVars >>

\* ReadCancelled on an output stream that still takes the finalizer's chunks
ReadCancelledFlushes ==
    /\ pc = "cancelled"
    /\ finalizeStream
    /\ pc' = "abandoned"
    /\ UNCHANGED << upstream, data, fullContent, pendingBuffer, toolCallJsonBuffer,
                    reasoningStarted, toolCallStarted, detectedToolName, nLines,
                    frameVars, errorVars, engineVars, laterVars >>

\* chat.ts:639-647, 675-678: the read of a cancelled reader answers done;
\* finalizeStream runs, enqueue throws on the cancelled output stream and
\* controller.error has no effect on it
ReadCancelled ==
    /\ pc = "cancelled"
    /\ nFinalize' = nFinalize + 1
    /\ textStarted' = FinalTextStarted
    /\ pc' = "abandoned"
    /\ UNCHANGED << upstream, data, fullContent, pendingBuffer, toolCallJsonBuffer,
                    reasoningStarted, toolCallStarted, detectedToolName, out, nLines,
                    frameVars, errorVars, engineVars, laterVars >>

\* a second session on the bytes the first one received
NewSession ==
    /\ pc = "closed"
    /\ ~canonical.known
    /\ canonical' = [known |-> TRUE, out |-> out, lineLog |-> lineLog]
    /\ upstream' = received
    /\ data' = [reasoning |-> << >>, content |-> << >>]
    /\ fullContent' = << >>
    /\ pendingBuffer' = << >>
    /\ toolCallJsonBuffer' = << >>
    /\ textStarted' = FALSE
    /\ reasoningStarted' = FALSE
    /\ toolCallStarted' = FALSE
    /\ detectedToolName' = NULL
    /\ out' = << Start >>
    /\ pc' = "reading"
    /\ nLines' = 0
    /\ nFinalize' = 0
    /\ sseBuffer' = << >>
    /\ lines' = << >>
    /\ received' = << >>
    /\ lineLog' = << >>
    /\ UNCHANGED << errorVars, engineVars, laterVars >>

NextFrames ==
    \/ ReadChunk
    \/ PassLine
    \/ DropLine
    \/ HandleLine
    \/ UpstreamDone
    \/ ReadFails
    \/ Cancel
    \/ ReadCancelled
    \/ NewSession

SpecFrames == InitFrames /\ [][NextFrames]_vars


(***************************************************************************)
(* onRequestPost (chat.ts:64-184): what is thrown while the request is     *)
(* read or the provider is called is answered as an event stream.          *)
(***************************************************************************)
\* Most words in an error message.
MaxWords == 2

LIMIT == << "l", "i", "m", "i", "t" >>
QUOTA == << "q", "u", "o", "t", "a" >>
LIMIT_ERROR ==
    << "L", "i", "m", "i", "t", "E", "r", "r", "o", "r", ":", " " >>
ERROR ==
    << "E", "r", "r", "o", "r", ":", " " >>
SERVICE_ERROR ==
    << "E", "d", "g", "e", " ", "A", "I", " ", "s", "e", "r", "v", "i",
       "c", "e", " ", "e", "r", "r", "o", "r" >>

errorTextId == "error"

FinishError == [type |-> "finish", finishReason |-> "error"]

\* chat.ts:134-135
ErrorMessage(error) == IF error.isError THEN error.message ELSE SERVICE_ERROR

\* isRateLimit that knows the word limit alone
isRateLimitLimitOnly(errorMessage) == Includes(errorMessage, LIMIT)

\* chat.ts:136-137
isRateLimit(errorMessage) == Includes(errorMessage, LIMIT) \/ Includes(errorMessage, QUOTA)

\* chat.ts:139-141
Msg(errorMessage) ==
    IF isRateLimit(errorMessage) THEN LIMIT_ERROR \o errorMessage ELSE ERROR \o errorMessage

\* chat.ts:143-173: the events of errorStream
ErrorStream(msg) ==
    << Start,
       [type |-> "text-start", id |-> errorTextId],
       [type |-> "text-delta", id |-> errorTextId, delta |-> msg],
       [type |-> "text-end", id |-> errorTextId],
       FinishError >>

\* pieces of error messages
Words ==
    { LIMIT, QUOTA, << "L", "i", "m", "i", "t" >>, << "Q", "U", "O", "T", "A" >>,
      << "l", "i", "m" >>, << "i", "t" >>, << " " >>, << "r", "a", "t", "e" >> }

RECURSIVE MessagesOf(_)
MessagesOf(n) ==
    IF n = 0 THEN {<< >>}
    ELSE MessagesOf(n - 1) \cup {m \o w : m \in MessagesOf(n - 1), w \in Words}

\* what may be thrown: an Error with a message, or a value that is no Error
Errors ==
    {[thrown |-> TRUE, isError |-> TRUE, message |-> m] : m \in MessagesOf(MaxWords)}
        \cup {[thrown |-> TRUE, isError |-> FALSE, message |-> << >>]}

InitError ==
    /\ upstream = << >>
    /\ data = [reasoning |-> << >>, content |-> << >>]
    /\ fullContent = << >>
    /\ pendingBuffer = << >>
    /\ toolCallJsonBuffer = << >>
    /\ textStarted = FALSE
    /\ reasoningStarted = FALSE
    /\ toolCallStarted = FALSE
    /\ detectedToolName = NULL
    /\ out = << >>
    /\ pc = "request"
    /\ nLines = 0
    /\ nFinalize = 0
    /\ FramesIdle
    /\ ErrorIdle
    /\ EngineIdle
    /\ LaterIdle

\* what no step of onRequestPost changes before a stream is read
requestFrame ==
    << upstream, data, fullContent, pendingBuffer, toolCallJsonBuffer, textStarted,
       reasoningStarted, toolCallStarted, detectedToolName, nLines, nFinalize,
       frameVars, engineVars, laterVars >>

\* chat.ts:79-85: request.text() or JSON.parse throws
RequestFails ==
    /\ pc = "request"
    /\ thrown' \in Errors
    /\ pc' = "caught"
    /\ UNCHANGED << out, requestFrame >>

\* chat.ts:79-105: the body is read and the messages are converted
RequestParsed ==
    /\ pc = "request"
    /\ pc' = "calling"
    /\ UNCHANGED << out, thrown, requestFrame >>

\* chat.ts:109-113: AI.chatCompletions rejects
ChatCompletionsFails ==
    /\ pc = "calling"
    /\ thrown' \in Errors
    /\ pc' = "caught"
    /\ UNCHANGED << out, requestFrame >>

\* chat.ts:109-128, 632: the provider answers and the transformed stream starts
ChatCompletionsReturns ==
    /\ pc = "calling"
    /\ out' = << Start >>
    /\ pc' = "streaming"
    /\ UNCHANGED << thrown, requestFrame >>

\* chat.ts:129-183: the catch block answers with errorStream
AnswerError ==
    /\ pc = "caught"
    /\ out' = ErrorStream(Msg(ErrorMessage(thrown)))
    /\ pc' = "answered"
    /\ UNCHANGED << thrown, requestFrame >>

NextError ==
    \/ RequestFails
    \/ RequestParsed
    \/ ChatCompletionsFails
    \/ ChatCompletionsReturns
    \/ AnswerError

SpecError == InitError /\ [][NextError]_vars


(***************************************************************************)
(* The Document Operation Engine, applyDiagramOperations of "@/lib/utils", *)
(* called at chat-panel.tsx:369-373.  Its code is not part of the source   *)
(* at hand: it is modelled from its contract (spec.md, section 4.5).  A    *)
(* document is a sequence of nodes [id, body]; the body is opaque and      *)
(* holds the parent information.  An operation is [type, cell_id, new_xml] *)
(* (chat-panel.tsx:341-347), an error [type, cellId, message]              *)
(* (chat-panel.tsx:377-381).                                               *)
(***************************************************************************)
\* Most operations in one call.
MaxOps == 2

NodeIds == {"a", "b", "c"}
Bodies == {"x", "y"}
NO_XML == "none"

Node(id, body) == [id |-> id, body |-> body]

Operation(type, id, xml) == [type |-> type, cell_id |-> id, new_xml |-> xml]

OperationError(op, message) == [type |-> op.type, cellId |-> op.cell_id, message |-> message]

HasNode(doc, id) == \E i \in 1..Len(doc) : doc[i].id = id

\* no two nodes of the document have the same id
UniqueIds(doc) == \A i, j \in 1..Len(doc) : doc[i].id = doc[j].id => i = j

\* ApplyUpdate that adds the new body as one more node
ApplyUpdateAppends(doc, op) ==
    IF HasNode(doc, op.cell_id)
    THEN [doc |-> Append(doc, Node(op.cell_id, op.new_xml)), errors |-> << >>]
    ELSE [doc |-> doc, errors |-> << OperationError(op, "not found") >>]

\* update: the body of the node is replaced where the node stands
ApplyUpdate(doc, op) ==
    IF HasNode(doc, op.cell_id)
    THEN [doc |-> [i \in 1..Len(doc) |->
                      IF doc[i].id = op.cell_id THEN Node(op.cell_id, op.new_xml) ELSE doc[i]],
          errors |-> << >>]
    ELSE [doc |-> doc, errors |-> << OperationError(op, "not found") >>]

\* ApplyAdd that does not look for the id
ApplyAddUnchecked(doc, op) ==
    [doc |-> Append(doc, Node(op.cell_id, op.new_xml)), errors |-> << >>]

\* add: a node of a new id is appended
ApplyAdd(doc, op) ==
    IF HasNode(doc, op.cell_id)
    THEN [doc |-> doc, errors |-> << OperationError(op, "duplicate id") >>]
    ELSE [doc |-> Append(doc, Node(op.cell_id, op.new_xml)), errors |-> << >>]

\* ApplyDelete that takes a missing node for a deleted one
ApplyDeleteSilent(doc, op) ==
    [doc |-> SelectSeq(doc, LAMBDA n : n.id # op.cell_id), errors |-> << >>]

\* delete: the nodes of that id are removed
ApplyDelete(doc, op) ==
    IF HasNode(doc, op.cell_id)
    THEN [doc |-> SelectSeq(doc, LAMBDA n : n.id # op.cell_id), errors |-> << >>]
    ELSE [doc |-> doc, errors |-> << OperationError(op, "not found") >>]

Apply(doc, op) ==
    CASE op.type = "update" -> ApplyUpdate(doc, op)
      [] op.type = "add" -> ApplyAdd(doc, op)
      [] op.type = "delete" -> ApplyDelete(doc, op)

\* the documents the engine is called on: their ids are unique
Documents ==
    { << >>,
      << Node("a", "x") >>,
      << Node("a", "x"), Node("b", "y") >> }

Operations ==
    {Operation(type, id, xml) : type \in {"update", "add"}, id \in NodeIds, xml \in Bodies}
        \cup {Operation("delete", id, NO_XML) : id \in NodeIds}

RECURSIVE BatchesOf(_)
BatchesOf(n) ==
    IF n = 0 THEN {<< >>}
    ELSE BatchesOf(n - 1) \cup {Append(b, op) : b \in BatchesOf(n - 1), op \in Operations}

\* what no step of the engine changes
engineFrame ==
    << upstream, data, fullContent, pendingBuffer, toolCallJsonBuffer, textStarted,
       reasoningStarted, toolCallStarted, detectedToolName, out, nLines, nFinalize,
       frameVars, errorVars, laterVars >>

\* chat-panel.tsx:372-373: applyDiagramOperations(currentXml, operations) is
\* called; it works on a copy of the document
InitEngine ==
    /\ document \in Documents
    /\ batch \in BatchesOf(MaxOps)
    /\ working = document
    /\ errors = << >>
    /\ opIndex = 0
    /\ upstream = << >>
    /\ data = [reasoning |-> << >>, content |-> << >>]
    /\ fullContent = << >>
    /\ pendingBuffer = << >>
    /\ toolCallJsonBuffer = << >>
    /\ textStarted = FALSE
    /\ reasoningStarted = FALSE
    /\ toolCallStarted = FALSE
    /\ detectedToolName = NULL
    /\ out = << >>
    /\ pc = "applying"
    /\ nLines = 0
    /\ nFinalize = 0
    /\ FramesIdle
    /\ ErrorIdle
    /\ LaterIdle

\* ApplyOperation that gives up the whole batch at the first error
ApplyOperationAllOrNothing ==
    /\ pc = "applying"
    /\ opIndex < Len(batch)
    /\ IF Apply(working, batch[opIndex + 1]).errors = << >>
       THEN /\ working' = Apply(working, batch[opIndex + 1]).doc
            /\ opIndex' = opIndex + 1
            /\ errors' = errors
       ELSE /\ working' = document
            /\ opIndex' = Len(batch)
            /\ errors' = errors \o Apply(working, batch[opIndex + 1]).errors
    /\ UNCHANGED << document, batch, pc, engineFrame >>

\* the next operation is applied to the working copy; its error, if any, is
\* added to the list and the engine goes on
ApplyOperation ==
    /\ pc = "applying"
    /\ opIndex < Len(batch)
    /\ working' = Apply(working, batch[opIndex + 1]).doc
    /\ errors' = errors \o Apply(working, batch[opIndex + 1]).errors
    /\ opIndex' = opIndex + 1
    /\ UNCHANGED << document, batch, pc, engineFrame >>

\* chat-panel.tsx:372-373: the engine returns { result, errors }
ReturnResult ==
    /\ pc = "applying"
    /\ opIndex = Len(batch)
    /\ pc' = "applied"
    /\ UNCHANGED << engineVars, engineFrame >>

NextEngine == ApplyOperation \/ ReturnResult

SpecEngine == InitEngine /\ [][NextEngine]_vars


(***************************************************************************)
(* onToolCall (chat-panel.tsx:241-546).  isMxCellXmlComplete and           *)
(* onDisplayChart (loadDiagram) are collaborators whose answers are        *)
(* inputs: any answer may come.  The toolCall is the one the transformer's *)
(* tool-input-available event carries; its input may lack the field of    *)
(* the tool (chat.ts:566-569 with JSON.stringify, chat.ts:344).            *)
(***************************************************************************)
StringValue(s) == [t |-> "string", v |-> s]

\* chat-panel.tsx:470-475
FreshStarts ==
    { << "<", "m", "x", "G", "r", "a", "p", "h", "M", "o", "d", "e", "l" >>,
      << "<", "r", "o", "o", "t" >>,
      << "<", "m", "x", "f", "i", "l", "e" >>,
      << "<", "m", "x", "C", "e", "l", "l", " ", "i", "d", "=", "\"", "0", "\"" >>,
      << "<", "m", "x", "C", "e", "l", "l", " ", "i", "d", "=", "\"", "1", "\"" >> }

\* chat-panel.tsx:469-475
isFreshStart(xml) == \E p \in FreshStarts : StartsWithAt(Trim(xml), 0, p)

\* chat-panel.tsx:293, 505: wrapWithMxFile(finalXml)
wrapWithMxFile(xml) == [mxfile |-> xml]

\* the xml a display_diagram or append_diagram call may carry
XmlTexts ==
    { << "<", "m", "x", "C", "e", "l", "l", " ", "i", "d", "=", "\"", "2", "\"" >>,
      << " " >> \o << "<", "r", "o", "o", "t" >>,
      << "<", "m", "x", "C", "e", "l", "l", " ", "i", "d", "=", "\"", "1", "\"" >> \o << ">" >> }

\* what onDisplayChart answers: no error, or the validation error
ValidationAnswers == {NULL, "invalid"}

\* a display_diagram call of the transformer may come without xml
\* (chat.ts:566-569: xml: toolCall.xml of a payload that has no xml member)
ToolCalls ==
    {[toolName |-> "display_diagram", input |-> [xml |-> x]] :
        x \in {StringValue(t) : t \in XmlTexts} \cup {UNDEFINED}}
      \cup {[toolName |-> "append_diagram", input |-> [xml |-> StringValue(t)]] :
                t \in XmlTexts}

ToolOutput(tool, state, head, detail) ==
    [tool |-> tool, state |-> state, text |-> head, detail |-> detail]

\* the transformer takes no part
TransformerIdle ==
    /\ upstream = << >>
    /\ data = [reasoning |-> << >>, content |-> << >>]
    /\ fullContent = << >>
    /\ pendingBuffer = << >>
    /\ toolCallJsonBuffer = << >>
    /\ textStarted = FALSE
    /\ reasoningStarted = FALSE
    /\ toolCallStarted = FALSE
    /\ detectedToolName = NULL
    /\ out = << >>
    /\ nLines = 0
    /\ nFinalize = 0
    /\ FramesIdle
    /\ ErrorIdle

\* what no step of onToolCall changes
toolFrame ==
    << upstream, data, fullContent, pendingBuffer, toolCallJsonBuffer, textStarted,
       reasoningStarted, toolCallStarted, detectedToolName, out, nLines, nFinalize,
       frameVars, errorVars, escapeVars, quotaVars, restVars >>

\* chat-panel.tsx:241: onToolCall is called with a tool call; partialXmlRef
\* holds what an earlier truncated call left
InitToolCall ==
    /\ TransformerIdle
    /\ EscapeIdle
    /\ QuotaIdle
    /\ RestIdle
    /\ toolOutputs = << >>
    /\ displayed = << >>
    /\ exported = 0
    /\ validationError = NULL
    /\ errors = << >>
    /\ opIndex = 0
    /\ \/ /\ call \in ToolCalls
          /\ partialXml \in {<< >>, << "<" >>}
          /\ document = << >>
          /\ batch = << >>
          /\ working = << >>
          /\ pc = "called"
       \/ /\ batch \in BatchesOf(MaxOps)
          /\ call = [toolName |-> "edit_diagram", input |-> [operations |-> batch]]
          /\ partialXml = << >>
          /\ document \in Documents
          /\ working = document
          /\ pc = "applying"

\* chat-panel.tsx:248-339
DisplayDiagram ==
    /\ pc = "called"
    /\ call.toolName = "display_diagram"
    /\ IF call.input.xml = UNDEFINED
       THEN \* chat-panel.tsx:254: xml.slice of undefined throws; nothing catches it
            /\ pc' = "threw"
            /\ UNCHANGED << partialXml, toolOutputs, displayed, validationError >>
       ELSE \E isComplete \in BOOLEAN, answer \in ValidationAnswers :
              /\ pc' = "returned"
              /\ IF ~isComplete
                 THEN /\ partialXml' = call.input.xml.v
                      /\ toolOutputs' = Append(toolOutputs,
                            ToolOutput("display_diagram", "output-error",
                                       "Output was truncated due to length limits.",
                                       call.input.xml.v))
                      /\ UNCHANGED << displayed, validationError >>
                 ELSE /\ partialXml' = << >>
                      /\ displayed' = Append(displayed, wrapWithMxFile(call.input.xml.v))
                      /\ validationError' = answer
                      /\ toolOutputs' = Append(toolOutputs,
                            IF answer # NULL
                            THEN ToolOutput("display_diagram", "output-error",
                                            "Please fix the XML issues", answer)
                            ELSE ToolOutput("display_diagram", "output-available",
                                            "Successfully displayed the diagram.", NULL))
    /\ UNCHANGED << call, exported, engineVars, toolFrame >>

\* chat-panel.tsx:464-545
AppendDiagram ==
    /\ pc = "called"
    /\ call.toolName = "append_diagram"
    /\ \E isComplete \in BOOLEAN, answer \in ValidationAnswers :
              /\ pc' = "returned"
              /\ IF isFreshStart(call.input.xml.v)
                 THEN /\ toolOutputs' = Append(toolOutputs,
                            ToolOutput("append_diagram", "output-error",
                                       "ERROR: You started fresh with wrapper tags.",
                                       partialXml))
                      /\ UNCHANGED << partialXml, displayed, validationError >>
                 ELSE IF isComplete
                 THEN /\ partialXml' = << >>
                      /\ displayed' = Append(displayed,
                                             wrapWithMxFile(partialXml \o call.input.xml.v))
                      /\ validationError' = answer
                      /\ toolOutputs' = Append(toolOutputs,
                            IF answer # NULL
                            THEN ToolOutput("append_diagram", "output-error",
                                            "Validation error after assembly", answer)
                            ELSE ToolOutput("append_diagram", "output-available",
                                 "Diagram assembly complete and displayed successfully.", NULL))
                 ELSE /\ partialXml' = partialXml \o call.input.xml.v
                      /\ toolOutputs' = Append(toolOutputs,
                            ToolOutput("append_diagram", "output-error",
                                       "XML still incomplete (mxCell not closed).",
                                       partialXml \o call.input.xml.v))
                      /\ UNCHANGED << displayed, validationError >>
    /\ UNCHANGED << call, exported, engineVars, toolFrame >>

\* EditFinish that loads the edited document before it looks at the errors
EditFinishLoadsFirst ==
    /\ pc = "applied"
    /\ call.toolName = "edit_diagram"
    /\ pc' = "returned"
    /\ \E answer \in ValidationAnswers :
          /\ displayed' = Append(displayed, working)
          /\ validationError' = answer
          /\ IF errors # << >>
             THEN /\ toolOutputs' = Append(toolOutputs,
                        ToolOutput("edit_diagram", "output-error",
                                   "Some operations failed:", errors))
                  /\ UNCHANGED exported
             ELSE IF answer # NULL
             THEN /\ toolOutputs' = Append(toolOutputs,
                        ToolOutput("edit_diagram", "output-error",
                                   "Edit produced invalid XML:", answer))
                  /\ UNCHANGED exported
             ELSE /\ exported' = exported + 1
                  /\ toolOutputs' = Append(toolOutputs,
                        ToolOutput("edit_diagram", "output-available",
                                   "Successfully applied", Len(call.input.operations)))
    /\ UNCHANGED << call, partialXml, engineVars, toolFrame >>

\* chat-panel.tsx:375-438: what the handler does with { result, errors }
EditFinish ==
    /\ pc = "applied"
    /\ call.toolName = "edit_diagram"
    /\ pc' = "returned"
    /\ IF errors # << >>
       THEN /\ toolOutputs' = Append(toolOutputs,
                  ToolOutput("edit_diagram", "output-error",
                             "Some operations failed:", errors))
            /\ UNCHANGED << displayed, validationError, exported >>
       ELSE \E answer \in ValidationAnswers :
              /\ displayed' = Append(displayed, working)
              /\ validationError' = answer
              /\ IF answer # NULL
                 THEN /\ toolOutputs' = Append(toolOutputs,
                            ToolOutput("edit_diagram", "output-error",
                                       "Edit produced invalid XML:", answer))
                      /\ UNCHANGED exported
                 ELSE /\ exported' = exported + 1
                      /\ toolOutputs' = Append(toolOutputs,
                            ToolOutput("edit_diagram", "output-available",
                                       "Successfully applied", Len(call.input.operations)))
    /\ UNCHANGED << call, partialXml, engineVars, toolFrame >>

\* chat-panel.tsx:349-371, 439-461: the current XML cannot be fetched, or the
\* import fails; the catch block answers
EditThrows ==
    /\ pc = "applying"
    /\ call.toolName = "edit_diagram"
    /\ opIndex = 0
    /\ pc' = "returned"
    /\ toolOutputs' = Append(toolOutputs,
          ToolOutput("edit_diagram", "output-error", "Edit failed:", document))
    /\ UNCHANGED << call, partialXml, displayed, exported, validationError,
                    engineVars, toolFrame >>

NextToolCall ==
    \/ DisplayDiagram
    \/ AppendDiagram
    \/ ApplyOperation
    \/ ReturnResult
    \/ EditFinish
    \/ EditThrows

SpecToolCall == InitToolCall /\ [][NextToolCall]_vars


(***************************************************************************)
(* The unescaping step of the render-kind recovery (chat.ts:717-721) on    *)
(* markup whose quotes, newlines and backslashes were escaped.             *)
(***************************************************************************)
\* Longest markup escaped.
MaxLiteralLen == 3

LiteralChars == {Q, BS, NL, "n"}

RECURSIVE LiteralsOfLen(_)
LiteralsOfLen(n) ==
    IF n = 0 THEN {<< >>}
    ELSE {Append(s, c) : s \in LiteralsOfLen(n - 1), c \in LiteralChars}

Literals == UNION {LiteralsOfLen(n) : n \in 0..MaxLiteralLen}

\* the escape sequence of one character
EscapedChar(c) ==
    IF c = Q THEN << BS, Q >>
    ELSE IF c = NL THEN << BS, "n" >>
    ELSE IF c = BS THEN << BS, BS >>
    ELSE << c >>

\* the markup with its quotes, newlines and backslashes escaped
RECURSIVE Escaped(_)
Escaped(s) == IF s = << >> THEN << >> ELSE EscapedChar(Head(s)) \o Escaped(Tail(s))

InitEscape ==
    /\ literal \in Literals
    /\ xmlText = << >>
    /\ pc = "literal"
    /\ TransformerIdle
    /\ EngineIdle
    /\ ToolIdle
    /\ QuotaIdle
    /\ RestIdle

\* what no step on the markup changes
escapeFrame ==
    << upstream, data, fullContent, pendingBuffer, toolCallJsonBuffer, textStarted,
       reasoningStarted, toolCallStarted, detectedToolName, out, nLines, nFinalize,
       frameVars, errorVars, engineVars, toolVars, quotaVars, restVars >>

\* the model writes the markup in the payload, escaped
WriteEscaped ==
    /\ pc = "literal"
    /\ xmlText' = Escaped(literal)
    /\ pc' = "escaped"
    /\ UNCHANGED << literal, escapeFrame >>

\* chat.ts:717-721
Unescape ==
    /\ pc = "escaped"
    /\ xmlText' = UnescapeXml(xmlText)
    /\ pc' = "unescaped"
    /\ UNCHANGED << literal, escapeFrame >>

NextEscape == WriteEscaped \/ Unescape

SpecEscape == InitEscape /\ [][NextEscape]_vars


(***************************************************************************)
(* Server-side quota: checkAndIncrementRequest (chat.ts:1424-1589) and     *)
(* recordTokenUsage (chat.ts:1596-1654) on the item of one IP, within one  *)
(* day and without DynamoDB failures.  Every client.send is one atomic     *)
(* step on the item; a call reads the clock once, when it starts.          *)
(***************************************************************************)
\* Most calls of the two functions.
MaxCalls == 5

\* Last minute the clock reaches.
MaxMinute == 2

\* the dates: no date stored, the day before, today
NO_DATE == -1
YESTERDAY == 0
TODAY == 1

\* no minute stored
NO_MINUTE == -1

\* chat.ts:1403-1407: the limits the calls are given
limits == [requests |-> 2, tokens |-> 3, tpm |-> 1]

\* the tokens one call of recordTokenUsage records
TokenAmounts == {1}

\* the item before the first call of the day: none, or the item of the day before
NoItem ==
    [lastResetDate |-> NO_DATE, dailyReqCount |-> 0, dailyTokenCount |-> 0,
     lastMinute |-> NO_MINUTE, tpmCount |-> 0]

OldItems ==
    { NoItem,
      [lastResetDate |-> YESTERDAY, dailyReqCount |-> limits.requests,
       dailyTokenCount |-> limits.tokens, lastMinute |-> NO_MINUTE, tpmCount |-> limits.tpm] }

\* a call under way: what it is, where it stands, the minute and the tokens it holds
Call(op, at, minute, tokens) == [op |-> op, at |-> at, minute |-> minute, tokens |-> tokens]

\* the calls under way with call c moved on to `at`, or returned when at is "done"
Moved(c, at) ==
    IF at = "done" THEN calls (-) SetToBag({c})
    ELSE (calls (-) SetToBag({c})) (+) SetToBag({[c EXCEPT !.at = at]})

\* calls started, calls answered allowed: true, those of them whose
\* conditional update succeeded, resets of the day, calls answered allowed: false
NoAnswer == [started |-> 0, allowed |-> 0, updated |-> 0, resets |-> 0, denied |-> 0]

InitQuota ==
    /\ item \in OldItems
    /\ now = 0
    /\ calls = EmptyBag
    /\ recorded = [m \in 0..MaxMinute |-> 0]
    /\ tally = NoAnswer
    /\ pc = "quota"
    /\ TransformerIdle
    /\ EngineIdle
    /\ ToolIdle
    /\ EscapeIdle
    /\ RestIdle

\* what no step of the quota functions changes
quotaFrame ==
    << upstream, data, fullContent, pendingBuffer, toolCallJsonBuffer, textStarted,
       reasoningStarted, toolCallStarted, detectedToolName, out, pc, nLines, nFinalize,
       frameVars, errorVars, engineVars, toolVars, escapeVars, restVars >>

\* a minute goes by
Tick ==
    /\ pc = "quota"
    /\ now < MaxMinute
    /\ now' = now + 1
    /\ UNCHANGED << item, calls, recorded, tally, quotaFrame >>

\* chat.ts:1433-1435: checkAndIncrementRequest reads the clock
StartCheck ==
    /\ pc = "quota"
    /\ tally.started < MaxCalls
    /\ calls' = calls (+) SetToBag({Call("check", "reset", now, 0)})
    /\ tally' = [tally EXCEPT !.started = @ + 1]
    /\ UNCHANGED << item, now, recorded, quotaFrame >>

\* chat.ts:1440-1473: the reset of a new day, under its condition
ResetDay(minute) ==
    /\ BagIn(Call("check", "reset", minute, 0), calls)
    /\ IF item.lastResetDate = NO_DATE \/ item.lastResetDate < TODAY
       THEN /\ item' = [lastResetDate |-> TODAY, dailyReqCount |-> 1, dailyTokenCount |-> 0,
                        lastMinute |-> minute, tpmCount |-> 0]
            /\ calls' = Moved(Call("check", "reset", minute, 0), "done")
            /\ tally' = [tally EXCEPT !.allowed = @ + 1, !.updated = @ + 1, !.resets = @ + 1]
       ELSE /\ calls' = Moved(Call("check", "reset", minute, 0), "increment")
            /\ UNCHANGED << item, tally >>
    /\ UNCHANGED << now, recorded, quotaFrame >>

\* chat.ts:1493-1497: the condition of the increment
IncrementCondition(minute) ==
    /\ item.lastResetDate = TODAY
    /\ item.dailyReqCount < limits.requests
    /\ item.dailyTokenCount < limits.tokens
    /\ (item.lastMinute = NO_MINUTE \/ item.lastMinute # minute \/ item.tpmCount < limits.tpm)

\* IncrementRequest that does not look at the limits
IncrementRequestUnchecked(minute) ==
    /\ BagIn(Call("check", "increment", minute, 0), calls)
    /\ item' = [item EXCEPT !.lastMinute = minute,
                            !.dailyReqCount = item.dailyReqCount + 1]
    /\ calls' = Moved(Call("check", "increment", minute, 0), "done")
    /\ tally' = [tally EXCEPT !.allowed = @ + 1, !.updated = @ + 1]
    /\ UNCHANGED << now, recorded, quotaFrame >>

\* chat.ts:1480-1511: the increment, under its condition
IncrementRequest(minute) ==
    /\ BagIn(Call("check", "increment", minute, 0), calls)
    /\ IF IncrementCondition(minute)
       THEN /\ item' = [item EXCEPT !.lastMinute = minute,
                                    !.dailyReqCount = item.dailyReqCount + 1]
            /\ calls' = Moved(Call("check", "increment", minute, 0), "done")
            /\ tally' = [tally EXCEPT !.allowed = @ + 1, !.updated = @ + 1]
       ELSE /\ calls' = Moved(Call("check", "increment", minute, 0), "get")
            /\ UNCHANGED << item, tally >>
    /\ UNCHANGED << now, recorded, quotaFrame >>

\* chat.ts:1540-1574: the limit found exceeded, NULL when none is
ExceededLimit(minute) ==
    LET isNewDay == item.lastResetDate = NO_DATE \/ item.lastResetDate < TODAY
        dailyReqCount == IF isNewDay THEN 0 ELSE item.dailyReqCount
        dailyTokenCount == IF isNewDay THEN 0 ELSE item.dailyTokenCount
        tpmCount == IF item.lastMinute # minute THEN 0 ELSE item.tpmCount
    IN  IF limits.requests > 0 /\ dailyReqCount >= limits.requests THEN "request"
        ELSE IF limits.tokens > 0 /\ dailyTokenCount >= limits.tokens THEN "token"
        ELSE IF limits.tpm > 0 /\ tpmCount >= limits.tpm THEN "tpm"
        ELSE NULL

\* chat.ts:1513-1574: the item is read to tell which limit was exceeded;
\* when none is found exceeded the call is allowed
GetItem(minute) ==
    /\ BagIn(Call("check", "get", minute, 0), calls)
    /\ calls' = Moved(Call("check", "get", minute, 0), "done")
    /\ tally' = IF ExceededLimit(minute) = NULL
                THEN [tally EXCEPT !.allowed = @ + 1]
                ELSE [tally EXCEPT !.denied = @ + 1]
    /\ UNCHANGED << item, now, recorded, quotaFrame >>

\* chat.ts:1600-1605: recordTokenUsage reads the clock
StartRecord ==
    /\ pc = "quota"
    /\ tally.started < MaxCalls
    /\ \E tokens \in TokenAmounts :
          calls' = calls (+) SetToBag({Call("record", "add", now, tokens)})
    /\ tally' = [tally EXCEPT !.started = @ + 1]
    /\ UNCHANGED << item, now, recorded, quotaFrame >>

\* chat.ts:1607-1623: the tokens are added when lastMinute is the minute of the call
AddTokens(minute, tokens) ==
    /\ BagIn(Call("record", "add", minute, tokens), calls)
    /\ IF item.lastMinute = minute
       THEN /\ item' = [item EXCEPT !.dailyTokenCount = item.dailyTokenCount + tokens,
                                    !.tpmCount = item.tpmCount + tokens]
            /\ recorded' = [recorded EXCEPT ![minute] = recorded[minute] + tokens]
            /\ calls' = Moved(Call("record", "add", minute, tokens), "done")
       ELSE /\ calls' = Moved(Call("record", "add", minute, tokens), "retry")
            /\ UNCHANGED << item, recorded >>
    /\ UNCHANGED << now, tally, quotaFrame >>

\* chat.ts:1625-1641: another minute: lastMinute and tpmCount are set anew
SetTokens(minute, tokens) ==
    /\ BagIn(Call("record", "retry", minute, tokens), calls)
    /\ item' = [item EXCEPT !.lastMinute = minute,
                            !.tpmCount = tokens,
                            !.dailyTokenCount = item.dailyTokenCount + tokens]
    /\ recorded' = [recorded EXCEPT ![minute] = recorded[minute] + tokens]
    /\ calls' = Moved(Call("record", "retry", minute, tokens), "done")
    /\ UNCHANGED << now, tally, quotaFrame >>

NextQuota ==
    \/ Tick
    \/ StartCheck
    \/ StartRecord
    \/ \E minute \in 0..MaxMinute :
          \/ ResetDay(minute)
          \/ IncrementRequest(minute)
          \/ GetItem(minute)
          \/ \E tokens \in TokenAmounts :
                \/ AddTokens(minute, tokens)
                \/ SetTokens(minute, tokens)

SpecQuota == InitQuota /\ [][NextQuota]_vars


(***************************************************************************)
(* sendAutomaticallyWhen (chat-panel.tsx:642-693), hasToolErrors           *)
(* (chat-panel.tsx:76-95) and sendChatMessage (chat-panel.tsx:1012-1020)   *)
(* around the turns of the assistant.  A turn brings at most one tool      *)
(* call, which onToolCall handles; toolOutputs, displayed and exported are *)
(* those of the turn.  The quota manager's answers are inputs.             *)
(***************************************************************************)
\* Most turns of the assistant.
MaxTurns == 4

\* chat-panel.tsx:71
MAX_AUTO_RETRY_COUNT == 1

\* chat-panel.tsx:76-95: the last tool part of the last message is in error
hasToolErrors ==
    /\ toolOutputs # << >>
    /\ toolOutputs[Len(toolOutputs)].state = "output-error"

InitRetry ==
    /\ TransformerIdle
    /\ EngineIdle
    /\ ToolIdle
    /\ EscapeIdle
    /\ QuotaIdle
    /\ PortIdle
    /\ RetryIdle
    /\ pc = "idle"

\* what no step around the turns changes
retryFrame ==
    << upstream, data, fullContent, pendingBuffer, toolCallJsonBuffer, textStarted,
       reasoningStarted, toolCallStarted, detectedToolName, out, nLines, nFinalize,
       frameVars, errorVars, escapeVars, quotaVars, portVars >>

\* chat-panel.tsx:1012-1024: the user sends a message
sendChatMessage ==
    /\ pc \in {"idle", "threw"}
    /\ turns < MaxTurns
    /\ autoRetryCount' = 0
    /\ partialXml' = << >>
    /\ regularRetries' = 0
    /\ decision' = NoDecision
    /\ pc' = "streaming"
    /\ UNCHANGED << turns, call, toolOutputs, displayed, exported, validationError,
                    engineVars, retryFrame >>

\* the assistant's message comes: without a tool call, or with one that
\* onToolCall (chat-panel.tsx:241) is given
StartTurn ==
    /\ pc = "streaming"
    /\ turns < MaxTurns
    /\ turns' = turns + 1
    /\ toolOutputs' = << >>
    /\ displayed' = << >>
    /\ exported' = 0
    /\ validationError' = NULL
    /\ errors' = << >>
    /\ opIndex' = 0
    /\ \/ /\ call' = NoToolCall
          /\ document' = << >>
          /\ batch' = << >>
          /\ working' = << >>
          /\ pc' = "returned"
       \/ /\ call' \in ToolCalls
          /\ document' = << >>
          /\ batch' = << >>
          /\ working' = << >>
          /\ pc' = "called"
       \/ \E ops \in BatchesOf(1), doc \in Documents :
             /\ call' = [toolName |-> "edit_diagram", input |-> [operations |-> ops]]
             /\ batch' = ops
             /\ document' = doc
             /\ working' = doc
             /\ pc' = "applying"
    /\ UNCHANGED << partialXml, autoRetryCount, decision, regularRetries, retryFrame >>

\* SendAutomaticallyWhen that does not count the retry
SendAutomaticallyWhenUncounted ==
    /\ pc = "returned"
    /\ \E tokenAllowed, tpmAllowed \in BOOLEAN :
          LET isInContinuationMode == partialXml # << >>
          IN  IF ~hasToolErrors
              THEN /\ autoRetryCount' = 0
                   /\ partialXml' = << >>
                   /\ decision' = Decision(FALSE, "no error")
                   /\ pc' = "idle"
                   /\ UNCHANGED regularRetries
              ELSE IF ~isInContinuationMode /\ autoRetryCount >= MAX_AUTO_RETRY_COUNT
              THEN /\ autoRetryCount' = 0
                   /\ partialXml' = << >>
                   /\ decision' = Decision(FALSE, "retry limit")
                   /\ pc' = "idle"
                   /\ UNCHANGED regularRetries
              ELSE IF ~tokenAllowed
              THEN /\ autoRetryCount' = 0
                   /\ partialXml' = << >>
                   /\ decision' = Decision(FALSE, "token limit")
                   /\ pc' = "idle"
                   /\ UNCHANGED regularRetries
              ELSE IF ~tpmAllowed
              THEN /\ autoRetryCount' = 0
                   /\ partialXml' = << >>
                   /\ decision' = Decision(FALSE, "tpm limit")
                   /\ pc' = "idle"
                   /\ UNCHANGED regularRetries
              ELSE /\ UNCHANGED autoRetryCount
                   /\ regularRetries' =
                         IF isInContinuationMode THEN regularRetries ELSE regularRetries + 1
                   /\ decision' =
                         Decision(TRUE, IF isInContinuationMode THEN "continuation" ELSE "regular")
                   /\ pc' = "streaming"
                   /\ UNCHANGED partialXml
    /\ UNCHANGED << turns, call, toolOutputs, displayed, exported, validationError,
                    engineVars, retryFrame >>

\* chat-panel.tsx:642-693: the turn has ended
SendAutomaticallyWhen ==
    /\ pc = "returned"
    /\ \E tokenAllowed, tpmAllowed \in BOOLEAN :
          LET isInContinuationMode == partialXml # << >>
          IN  IF ~hasToolErrors
              THEN /\ autoRetryCount' = 0
                   /\ partialXml' = << >>
                   /\ decision' = Decision(FALSE, "no error")
                   /\ pc' = "idle"
                   /\ UNCHANGED regularRetries
              ELSE IF ~isInContinuationMode /\ autoRetryCount >= MAX_AUTO_RETRY_COUNT
              THEN /\ autoRetryCount' = 0
                   /\ partialXml' = << >>
                   /\ decision' = Decision(FALSE, "retry limit")
                   /\ pc' = "idle"
                   /\ UNCHANGED regularRetries
              ELSE IF ~tokenAllowed
              THEN /\ autoRetryCount' = 0
                   /\ partialXml' = << >>
                   /\ decision' = Decision(FALSE, "token limit")
                   /\ pc' = "idle"
                   /\ UNCHANGED regularRetries
              ELSE IF ~tpmAllowed
              THEN /\ autoRetryCount' = 0
                   /\ partialXml' = << >>
                   /\ decision' = Decision(FALSE, "tpm limit")
                   /\ pc' = "idle"
                   /\ UNCHANGED regularRetries
              ELSE /\ autoRetryCount' =
                         IF isInContinuationMode THEN autoRetryCount ELSE autoRetryCount + 1
                   /\ regularRetries' =
                         IF isInContinuationMode THEN regularRetries ELSE regularRetries + 1
                   /\ decision' =
                         Decision(TRUE, IF isInContinuationMode THEN "continuation" ELSE "regular")
                   /\ pc' = "streaming"
                   /\ UNCHANGED partialXml
    /\ UNCHANGED << turns, call, toolOutputs, displayed, exported, validationError,
                    engineVars, retryFrame >>

NextRetry ==
    \/ sendChatMessage
    \/ StartTurn
    \/ DisplayDiagram
    \/ AppendDiagram
    \/ ApplyOperation
    \/ ReturnResult
    \/ EditFinish
    \/ EditThrows
    \/ SendAutomaticallyWhen

SpecRetry == InitRetry /\ [][NextRetry]_vars


(***************************************************************************)
(* The port allocation of src/proxy.ts:71-193.  findAvailablePort runs     *)
(* from one await to the next; the other functions are synchronous and may *)
(* be called while it waits; one call of findAvailablePort is under way    *)
(* at a time.  What isPortAvailable answers and what getRandomPort draws   *)
(* are inputs.                                                             *)
(***************************************************************************)
\* The attempts of the loop: PORT_CONFIG.maxAttempts (100 in proxy.ts:81).
MaxAttempts == 2

\* proxy.ts:73-82
PORT_CONFIG ==
    [development |-> 6002, production |-> [min |-> 10000, max |-> 65535],
     maxAttempts |-> MaxAttempts]

\* proxy.ts:106-109: the ports getRandomPort may draw (the ends of the range)
RandomPorts == {PORT_CONFIG.production.min, PORT_CONFIG.production.max}

\* proxy.ts:148-151: the ports the loop may try at an attempt
LoopPorts(attempt) ==
    IF isDev THEN {PORT_CONFIG.development + attempt + 1} ELSE RandomPorts

InitPort ==
    /\ allocatedPort = NO_PORT
    /\ isDev \in BOOLEAN
    /\ find = NoFind
    /\ result = NoResult
    /\ pc = "port"
    /\ TransformerIdle
    /\ EngineIdle
    /\ ToolIdle
    /\ EscapeIdle
    /\ QuotaIdle
    /\ RetryIdle

\* what no port function changes
portFrame ==
    << upstream, data, fullContent, pendingBuffer, toolCallJsonBuffer, textStarted,
       reasoningStarted, toolCallStarted, detectedToolName, out, pc, nLines, nFinalize,
       frameVars, errorVars, engineVars, toolVars, escapeVars, quotaVars, retryVars, isDev >>

\* the result of the call of findAvailablePort under way
FindResult(threw, value, after, stillAvailable) ==
    Result("findAvailablePort", threw, value, after, find.reuseExisting, find.cached,
           stillAvailable)

\* proxy.ts:121-127, 134, 148-152: findAvailablePort is called and runs to its first await
FindStart(reuseExisting) ==
    /\ pc = "port"
    /\ find.at = "idle"
    /\ IF reuseExisting /\ allocatedPort # NO_PORT
       THEN find' = [at |-> "cached", reuseExisting |-> reuseExisting,
                     port |-> allocatedPort, attempt |-> 0, cached |-> allocatedPort]
       ELSE IF isDev
       THEN find' = [at |-> "dev", reuseExisting |-> reuseExisting,
                     port |-> PORT_CONFIG.development, attempt |-> 0,
                     cached |-> allocatedPort]
       ELSE \E port \in LoopPorts(0) :
               find' = [at |-> "loop", reuseExisting |-> reuseExisting,
                        port |-> port, attempt |-> 0, cached |-> allocatedPort]
    /\ UNCHANGED << allocatedPort, result, portFrame >>

\* proxy.ts:125-134: the cached port was probed
FindCached(available) ==
    /\ find.at = "cached"
    /\ IF available
       THEN /\ result' = FindResult(FALSE, allocatedPort, allocatedPort, TRUE)
            /\ find' = NoFind
            /\ UNCHANGED allocatedPort
       ELSE /\ allocatedPort' = NO_PORT
            /\ IF isDev
               THEN find' = [find EXCEPT !.at = "dev", !.port = PORT_CONFIG.development]
               ELSE \E port \in LoopPorts(0) :
                       find' = [find EXCEPT !.at = "loop", !.port = port, !.attempt = 0]
            /\ UNCHANGED result
    /\ UNCHANGED portFrame

\* proxy.ts:136-146: the development port was probed
FindDev(available) ==
    /\ find.at = "dev"
    /\ IF available
       THEN /\ allocatedPort' = find.port
            /\ result' = FindResult(FALSE, find.port, find.port, FALSE)
            /\ find' = NoFind
       ELSE /\ \E port \in LoopPorts(0) :
                  find' = [find EXCEPT !.at = "loop", !.port = port, !.attempt = 0]
            /\ UNCHANGED << allocatedPort, result >>
    /\ UNCHANGED portFrame

\* proxy.ts:148-165: a port of the loop was probed
FindLoop(available) ==
    /\ find.at = "loop"
    /\ IF available
       THEN /\ allocatedPort' = find.port
            /\ result' = FindResult(FALSE, find.port, find.port, FALSE)
            /\ find' = NoFind
       ELSE IF find.attempt + 1 < PORT_CONFIG.maxAttempts
       THEN /\ \E port \in LoopPorts(find.attempt + 1) :
                  find' = [find EXCEPT !.port = port, !.attempt = find.attempt + 1]
            /\ UNCHANGED << allocatedPort, result >>
       ELSE /\ result' = FindResult(TRUE, NO_PORT, allocatedPort, FALSE)
            /\ find' = NoFind
            /\ UNCHANGED allocatedPort
    /\ UNCHANGED portFrame

\* proxy.ts:172-174
getAllocatedPort ==
    /\ pc = "port"
    /\ result' = Result("getAllocatedPort", FALSE, allocatedPort, allocatedPort,
                        FALSE, NO_PORT, FALSE)
    /\ UNCHANGED << allocatedPort, find, portFrame >>

\* proxy.ts:179-181
resetAllocatedPort ==
    /\ pc = "port"
    /\ allocatedPort' = NO_PORT
    /\ result' = Result("resetAllocatedPort", FALSE, NO_PORT, NO_PORT, FALSE, NO_PORT, FALSE)
    /\ UNCHANGED << find, portFrame >>

\* proxy.ts:186-193: the URL is told by its port
getServerUrl ==
    /\ pc = "port"
    /\ result' = Result("getServerUrl", allocatedPort = NO_PORT, allocatedPort,
                        allocatedPort, FALSE, NO_PORT, FALSE)
    /\ UNCHANGED << allocatedPort, find, portFrame >>

NextPort ==
    \/ \E reuseExisting \in BOOLEAN : FindStart(reuseExisting)
    \/ \E available \in BOOLEAN :
          \/ FindCached(available)
          \/ FindDev(available)
          \/ FindLoop(available)
    \/ getAllocatedPort
    \/ resetAllocatedPort
    \/ getServerUrl

SpecPort == InitPort /\ [][NextPort]_vars


(***************************************************************************)
(* What the consumer has received                                          *)
(***************************************************************************)
RECURSIVE Concat(_)
Concat(ss) == IF ss = << >> THEN << >> ELSE Head(ss) \o Concat(Tail(ss))

EventsOf(events, type) == SelectSeq(events, LAMBDA e : e.type = type)

Count(events, type) == Len(EventsOf(events, type))

\* the narration the consumer has: all text-delta.delta, in order
TextOut ==
    LET t == EventsOf(out, "text-delta") IN Concat([i \in 1..Len(t) |-> t[i].delta])

\* the payload the consumer has: all tool-input-delta.inputTextDelta, in order
RelayOut ==
    LET t == EventsOf(out, "tool-input-delta")
    IN  Concat([i \in 1..Len(t) |-> t[i].inputTextDelta])

\* position of the marker in all the content received, -1 when it is not there
MarkerAt == IndexOf(fullContent, MARKER)

\* a known tool name is written after the marker
KindNamed(after) ==
    IF Includes(after, DISPLAY_DIAGRAM) THEN "display_diagram"
    ELSE IF Includes(after, EDIT_DIAGRAM) THEN "edit_diagram"
    ELSE NULL

\* the events a step has put on the output stream
Emitted == SubSeq(out', Len(out) + 1, Len(out'))

\* those of them that do not belong to the reasoning span
ContentEmitted ==
    SelectSeq(Emitted, LAMBDA e : e.type \notin {"reasoning-start", "reasoning-delta"})

\* the step has processed a data line, which is data'
LineStep == nLines' = nLines + 1

\* the step has turned the session from TEXT to TOOL mode
DetectionStep == LineStep /\ ~toolCallStarted /\ toolCallStarted'

(***************************************************************************)
(* Claims                                                                  *)
(***************************************************************************)
\* C1 (P1, no premature tool leakage): when the content received holds the
\* marker followed by a known tool name, every text-delta is a piece of the
\* narration before the marker and the text emitted is no longer than that
\* narration, wherever the deltas were cut.
C1_NoToolLeakage ==
    (MarkerAt # -1 /\ KindNamed(SliceFrom(fullContent, MarkerAt)) # NULL) =>
        /\ Len(TextOut) <= MarkerAt
        /\ \A i \in 1..Len(out) :
               out[i].type = "text-delta" =>
                   Includes(Slice(fullContent, 0, MarkerAt), out[i].delta)

\* C1 witness: narration was emitted and the tool call was detected on a
\* delta that starts inside the marker.
C1_Witness ==
    /\ toolCallStarted
    /\ Count(out, "text-delta") >= 1
    /\ Count(out, "tool-input-delta") = 1
    /\ Len(toolCallJsonBuffer) - Len(data.content) \in 1..(Len(MARKER) - 1)

\* C2 (P2, relay completeness): the tool-input-delta fragments, concatenated
\* in emission order, are the payload buffer handed to parseToolCall.
C2_RelayComplete == RelayOut = toolCallJsonBuffer

\* C2 witness: a finalized tool call relayed in several fragments, the first
\* of them holding content buffered before its delta.
C2_Witness ==
    /\ pc = "closed"
    /\ Count(out, "tool-input-available") = 1
    /\ Count(out, "tool-input-delta") >= 2
    /\ Len(EventsOf(out, "tool-input-delta")[2].inputTextDelta) < Len(toolCallJsonBuffer)
    /\ Len(EventsOf(out, "tool-input-delta")[1].inputTextDelta) > Len(MARKER)
    /\ Len(fullContent) - Len(toolCallJsonBuffer) = 3


\* C3 as stated (Scenario A): on the step that finds the marker and a tool
\* name, the content before the marker is emitted as narration whatever it
\* is, then text-end, tool-input-start with the tool name and one
\* tool-input-delta from the marker on; the mode is TOOL and pendingBuffer
\* is empty afterwards.
C3_Original ==
    [][DetectionStep =>
          LET buffer == pendingBuffer \o data'.content
              m == IndexOf(buffer, MARKER)
              before == Slice(buffer, 0, m)
          IN  /\ m # -1
              /\ ContentEmitted =
                     (IF before # << >>
                      THEN (IF textStarted THEN << >> ELSE << TextStart >>)
                               \o << TextDelta(before) >>
                      ELSE << >>)
                     \o (IF textStarted \/ before # << >> THEN << TextEnd >> ELSE << >>)
                     \o << ToolInputStart(KindNamed(SliceFrom(buffer, m))),
                           ToolInputDelta(SliceFrom(buffer, m)) >>
              /\ pendingBuffer' = << >>]_vars

\* C3 as amended: on the step that finds the marker and a tool name, the
\* content before the marker is emitted as narration unless it is white
\* space alone (then it is dropped), then text-end if the text span is open,
\* tool-input-start with the tool name and one tool-input-delta from the
\* marker on; the mode is TOOL and pendingBuffer is empty afterwards.
C3_DetectionOrder ==
    [][DetectionStep =>
          LET buffer == pendingBuffer \o data'.content
              m == IndexOf(buffer, MARKER)
              before == Slice(buffer, 0, m)
          IN  /\ m # -1
              /\ ContentEmitted =
                     (IF ~IsBlank(before)
                      THEN (IF textStarted THEN << >> ELSE << TextStart >>)
                               \o << TextDelta(before) >>
                      ELSE << >>)
                     \o (IF textStarted \/ ~IsBlank(before) THEN << TextEnd >> ELSE << >>)
                     \o << ToolInputStart(KindNamed(SliceFrom(buffer, m))),
                           ToolInputDelta(SliceFrom(buffer, m)) >>
              /\ StartsWithAt(SliceFrom(buffer, m), 0, MARKER)
              /\ pendingBuffer' = << >>
              /\ ~textStarted']_vars

\* C3 witness: the tool call was just detected on a delta that also brought
\* narration, with the text span open from an earlier delta.
C3_Witness ==
    /\ toolCallStarted
    /\ pc = "reading"
    /\ Len(out) = 7
    /\ out[2].type = "text-start" /\ out[3].type = "text-delta"
    /\ out[4].type = "text-delta" /\ out[5].type = "text-end"
    /\ out[6].type = "tool-input-start" /\ out[7].type = "tool-input-delta"
    /\ out[3].delta \o out[4].delta \o out[7].inputTextDelta = fullContent


\* C4: while the upstream is read, finalizeStream has not run and no finish
\* was emitted; once the upstream is done, finalizeStream has run exactly
\* once and the output holds exactly one start, its first event, and exactly
\* one finish, its last event.
C4_OneStartOneFinish ==
    /\ out[1] = Start
    /\ Count(out, "start") = 1
    /\ pc = "reading" => nFinalize = 0 /\ Count(out, "finish") = 0
    /\ pc = "closed" =>
           /\ nFinalize = 1
           /\ Count(out, "finish") = 1
           /\ out[Len(out)] = Finish

\* C4 witness: a session closed on the recovery path; the whole display
\* payload was received and its markup was recovered.
C4_Witness ==
    /\ pc = "closed"
    /\ upstream = << >>
    /\ detectedToolName = "display_diagram"
    /\ ~JSONParse(toolCallJsonBuffer).ok
    /\ out[Len(out) - 1] =
           ToolInputAvailable("display_diagram",
                              << [k |-> "xml", val |-> JString(<< "<", Q, "}" >>)] >>)

\* C5 as stated: when tool mode was never entered, the text-delta events of
\* a finished session concatenate to all the content received.
C5_FullNarration ==
    (pc = "closed" /\ ~toolCallStarted) => TextOut = fullContent

\* the payload buffer names neither the xml nor the operations field
NoPayloadField ==
    ~Includes(toolCallJsonBuffer, QXMLQ) /\ ~Includes(toolCallJsonBuffer, QOPERATIONSQ)

\* C7 as stated (P4): when tool mode was entered and the payload buffer holds
\* no payload field, tool-input-available carries the field of the detected
\* tool with an empty value: xml "" or operations [].
C7_EmptyFieldPresent ==
    (pc = "closed" /\ toolCallStarted /\ NoPayloadField) =>
        EventsOf(out, "tool-input-available") =
            << ToolInputAvailable(detectedToolName,
                   IF detectedToolName = "display_diagram"
                   THEN << [k |-> "xml", val |-> JString(<< >>)] >>
                   ELSE << [k |-> "operations", val |-> JArray(<< >>)] >>) >>

\* C8: on a text delta in TEXT mode, if the pending buffer holds the marker
\* and no known tool name after it, nothing is emitted for the delta, the
\* mode stays TEXT and the whole buffer is kept; if it holds the marker and
\* a known tool name, the mode becomes TOOL with that name, which is also
\* the name the whole answer carries after the marker; without the marker
\* the mode stays TEXT.
C8_WaitsForToolName ==
    [][(LineStep /\ data'.content # << >> /\ ~toolCallStarted) =>
          \A buffer \in {pendingBuffer \o data'.content} :
          \A m \in {IndexOf(buffer, MARKER)} :
          \A kind \in {IF m = -1 THEN NULL ELSE KindNamed(SliceFrom(buffer, m))} :
          \A whole \in {fullContent' \o upstream'} :
              /\ (m # -1 /\ kind = NULL) =>
                     /\ ContentEmitted = << >>
                     /\ ~toolCallStarted'
                     /\ detectedToolName' = NULL
                     /\ pendingBuffer' = buffer
              /\ (m # -1 /\ kind # NULL) =>
                     /\ toolCallStarted'
                     /\ detectedToolName' = kind
                     /\ kind = KindNamed(SliceFrom(whole, IndexOf(whole, MARKER)))
              /\ m = -1 => ~toolCallStarted']_vars

\* C8 witness: the tool call was detected on a delta that starts inside the
\* tool name, after a delta that left narration and the marker in the buffer.
C8_Witness ==
    /\ toolCallStarted
    /\ Count(out, "tool-input-delta") = 1
    /\ Len(toolCallJsonBuffer) - Len(data.content) \in (Len(MARKER) + 3)..(Len(MARKER) + 10)
    /\ Len(out) = 6
    /\ out[3] = TextDelta(<< "a", " ", "b" >>)

\* C9: when the upstream ends in TEXT mode with a pending buffer, the last
\* events are a text-delta that ends with that buffer, text-end and finish;
\* the text span was opened and closed once and no more text was emitted
\* than was received.
C9_PendingFlushed ==
    (pc = "closed" /\ ~toolCallStarted /\ pendingBuffer # << >>) =>
        /\ Len(out) >= 5
        /\ out[Len(out)] = Finish
        /\ out[Len(out) - 1] = TextEnd
        /\ out[Len(out) - 2].type = "text-delta"
        /\ EndsWith(out[Len(out) - 2].delta, pendingBuffer)
        /\ Len(TextOut) <= Len(fullContent)
        /\ Count(out, "text-start") = 1
        /\ Count(out, "text-end") = 1

\* C9 witness: narration was streamed, then a marker with an unknown tool
\* stayed in the buffer until the upstream ended.
C9_Witness ==
    /\ pc = "closed"
    /\ ~toolCallStarted
    /\ Includes(pendingBuffer, MARKER)
    /\ Count(out, "text-delta") = 2
    /\ TextOut = fullContent

\* C10 as stated: every reasoning delta is forwarded as a reasoning-delta,
\* after reasoning-start if it is the first, and a line with reasoning alone
\* changes neither the mode nor the buffers nor the text span.
C10_Original ==
    [][(LineStep /\ data'.reasoning # << >>) =>
          /\ SelectSeq(Emitted, LAMBDA e : e.type \in {"reasoning-start", "reasoning-delta"}) =
                 (IF reasoningStarted THEN << >> ELSE << ReasoningStart >>)
                     \o << ReasoningDelta(data'.reasoning) >>
          /\ data'.content = << >> =>
                 UNCHANGED << toolCallStarted, detectedToolName, pendingBuffer,
                              toolCallJsonBuffer, textStarted >>]_vars

\* C10 as amended: in both modes a reasoning delta that is not white space
\* alone is forwarded as a reasoning-delta, after reasoning-start if it is
\* the first, ahead of what the line's content emits; a reasoning delta of
\* white space alone emits nothing and does not open the span; a line with
\* reasoning alone emits nothing else and changes neither the mode nor the
\* buffers nor the text span.
C10_ReasoningBypass ==
    [][(LineStep /\ data'.reasoning # << >>) =>
          LET reasoning ==
                  IF IsBlank(data'.reasoning) THEN << >>
                  ELSE (IF reasoningStarted THEN << >> ELSE << ReasoningStart >>)
                           \o << ReasoningDelta(data'.reasoning) >>
          IN  /\ Emitted = reasoning \o ContentEmitted
              /\ reasoningStarted' = (reasoningStarted \/ ~IsBlank(data'.reasoning))
              /\ data'.content = << >> =>
                     /\ ContentEmitted = << >>
                     /\ UNCHANGED << toolCallStarted, detectedToolName, pendingBuffer,
                                     toolCallJsonBuffer, textStarted, fullContent >>]_vars

\* C10 witness: a second reasoning delta arrived in TOOL mode and was
\* forwarded on the span the first one had opened.
C10_Witness ==
    /\ toolCallStarted
    /\ pc = "reading"
    /\ data.content = << >>
    /\ out[Len(out)] = ReasoningDelta(data.reasoning)
    /\ Count(out, "reasoning-delta") = 2
    /\ Count(out, "reasoning-start") = 1
    /\ out[2] = ReasoningStart


\* the string an escaped string stands for: \" is a quote, \n a line feed
\* and \\ a backslash, read from left to right
RECURSIVE Literal(_)
Literal(s) ==
    IF s = << >> THEN << >>
    ELSE IF s[1] = BS /\ Len(s) >= 2 /\ s[2] \in {Q, "n", BS}
         THEN << (IF s[2] = "n" THEN NL ELSE s[2]) >> \o Literal(SubSeq(s, 3, Len(s)))
    ELSE << s[1] >> \o Literal(Tail(s))

\* the string holds a quote that no backslash escapes
RECURSIVE HasUnescapedQuote(_)
HasUnescapedQuote(s) ==
    IF s = << >> THEN FALSE
    ELSE IF s[1] = BS THEN HasUnescapedQuote(SubSeq(s, 3, Len(s)))
    ELSE IF s[1] = Q THEN TRUE
    ELSE HasUnescapedQuote(Tail(s))

\* C6 as stated (P3): when the payload {"tool":"display_diagram","xml":"<markup>"}
\* fails strict parsing because the markup holds unescaped quotes,
\* tool-input-available carries as xml the markup between the field's
\* opening quote and the closing quote-then-brace, less one trailing quote,
\* with its escape sequences reversed.
C6_RecoversMarkup ==
    \A markup \in {IF StartsWithAt(toolCallJsonBuffer, 0, DisplayHead)
                      /\ EndsWith(toolCallJsonBuffer, << Q, "}" >>)
                   THEN Slice(toolCallJsonBuffer, Len(DisplayHead), Len(toolCallJsonBuffer) - 2)
                   ELSE << >>} :
    \A xml \in {Literal(IF EndsWith(markup, << Q >>)
                        THEN Slice(markup, 0, Len(markup) - 1)
                        ELSE markup)} :
        (/\ pc = "closed"
         /\ toolCallStarted
         /\ HasUnescapedQuote(markup)
         /\ ~JSONParse(toolCallJsonBuffer).ok
         /\ ~IsBlank(xml)) =>
            EventsOf(out, "tool-input-available") =
                << ToolInputAvailable("display_diagram",
                                      << [k |-> "xml", val |-> JString(xml)] >>) >>


\* the data of the lines that hold data, in order
DataLog(ls) ==
    LET dataLines == SelectSeq(ls, LAMBDA l : DataOf(l).some)
    IN  [i \in 1..Len(dataLines) |-> DataOf(dataLines[i]).s]

\* C11: however the reads cut the bytes, the fragment kept is what follows
\* the last line feed received, the data handed to processDataLine and that
\* of the lines still to handle are the data of the complete lines
\* received, and a second session on the same bytes, cut in another way,
\* ends with the same lines parsed and the same output events.
C11_ChunkingInsensitive ==
    \A feed \in {LastIndexOf(received, << NL >>)} :
        /\ pc = "reading" =>
               /\ sseBuffer = SliceFrom(received, feed + 1)
               /\ lineLog \o DataLog(lines) =
                      DataLog(IF feed = -1 THEN << >>
                              ELSE Split(Slice(received, 0, feed)))
        /\ (canonical.known /\ pc = "closed") =>
               /\ out = canonical.out
               /\ lineLog = canonical.lineLog

\* C11 witness: in the second session a read has cut a data line in two
\* after the lines before it were handled and had produced events.
C11_Witness ==
    /\ canonical.known
    /\ pc = "reading"
    /\ lines = << >>
    /\ Len(sseBuffer) > Len(DATA_PREFIX) + 10
    /\ StartsWithAt(sseBuffer, 0, DATA_PREFIX)
    /\ toolCallStarted
    /\ Len(out) >= 5

\* C12: handling a data line that is [DONE] or that JSON.parse rejects emits
\* nothing, leaves the session state as it is and leaves the stream open
\* with the lines after it still to be handled.
C12_BadLineSkipped ==
    [][(pc = "reading" /\ lines # << >> /\ lines' = Tail(lines)) =>
          \A text \in {DataOf(Head(lines))} :
              (text.some /\ (text.s = DONE \/ ~JSONParse(text.s).ok)) =>
                  /\ out' = out
                  /\ pc' = "reading"
                  /\ UNCHANGED << fullContent, pendingBuffer, toolCallJsonBuffer,
                                  toolCallStarted, detectedToolName, textStarted,
                                  reasoningStarted, sseBuffer >>]_vars

\* C12 witness: after narration, a line that is no JSON and [DONE] were
\* passed over with the buffer pending, and the line after them was handled:
\* it completed the tool call.
C12_Witness ==
    /\ pc = "reading"
    /\ Len(lineLog) = 4
    /\ ~JSONParse(lineLog[2]).ok
    /\ lineLog[3] = DONE
    /\ toolCallStarted
    /\ out[Len(out)].type = "tool-input-delta"

\* the text holds the word
Holds(text, word) ==
    \E i \in 1..Len(text) : i + Len(word) - 1 <= Len(text) /\ SubSeq(text, i, i + Len(word) - 1) = word

\* C13: when the request or the call of the provider failed, the answer is
\* exactly start, text-start, text-delta, text-end and finish with reason
\* "error", the three text events with one id; the text is the error's
\* message after "LimitError: " when the message holds "limit" or "quota",
\* and after "Error: " otherwise.
C13_ErrorStream ==
    pc = "answered" =>
        \A message \in {IF thrown.isError THEN thrown.message ELSE SERVICE_ERROR} :
            /\ Len(out) = 5
            /\ out[1] = [type |-> "start"]
            /\ out[2].type = "text-start"
            /\ out[3].type = "text-delta"
            /\ out[4].type = "text-end"
            /\ out[2].id = out[3].id /\ out[3].id = out[4].id
            /\ out[5] = [type |-> "finish", finishReason |-> "error"]
            /\ out[3].delta =
                   (IF Holds(message, LIMIT) \/ Holds(message, QUOTA)
                    THEN LIMIT_ERROR ELSE ERROR) \o message

\* C13 witness: a failure whose message holds "quota" and not "limit" was
\* answered as a limit error.
C13_Witness ==
    /\ pc = "answered"
    /\ thrown.isError
    /\ Holds(thrown.message, QUOTA)
    /\ ~Holds(thrown.message, LIMIT)
    /\ StartsWithAt(out[3].delta, 0, LIMIT_ERROR)

\* C14 as stated: a failure of the upstream does not put the output stream
\* in error, and an output stream that has ended, by completion or by
\* failure, ends with a finish event.
C14_FailureTerminated ==
    /\ pc # "errored"
    /\ pc \in {"closed", "errored"} => out[Len(out)].type = "finish"

\* C15: once the consumer has cancelled, between two reads, nothing more is
\* read from the upstream and no event is added to the output: when the
\* loop has ended, the output holds neither tool-input-available nor finish
\* and what was buffered is still in the buffer.
C15_CancelSilent ==
    [][(pc \in {"cancelled", "abandoned"}) =>
          /\ out' = out
          /\ upstream' = upstream
          /\ received' = received
          /\ pendingBuffer' = pendingBuffer
          /\ Count(out', "finish") = 0
          /\ Count(out', "tool-input-available") = 0]_vars

\* C15 witness: the consumer cancelled with narration in the buffer; the
\* loop has ended and finalizeStream has run.
C15_Witness ==
    /\ pc = "abandoned"
    /\ nFinalize = 1
    /\ pendingBuffer # << >>
    /\ fullContent # << >>
    /\ out[Len(out)].type # "finish"


\* C16 as stated: when the payload of an edit_diagram call is no JSON and
\* its operations field holds a well-formed JSON array, tool-input-available
\* carries exactly the operations of that array.
C16_OperationsRecovered ==
    \A head \in EditHeads, tail \in EditTails :
    \A array \in {IF StartsWithAt(toolCallJsonBuffer, 0, head) /\ EndsWith(toolCallJsonBuffer, tail)
                  THEN Slice(toolCallJsonBuffer, Len(head), Len(toolCallJsonBuffer) - Len(tail))
                  ELSE << >>} :
        (/\ pc = "closed"
         /\ toolCallStarted
         /\ ~JSONParse(toolCallJsonBuffer).ok
         /\ JSONParse(array).ok
         /\ JSONParse(array).val.t = "array") =>
            EventsOf(out, "tool-input-available") =
                << ToolInputAvailable("edit_diagram",
                       << [k |-> "operations", val |-> JSONParse(array).val] >>) >>


\* C17 (P5, best-effort batch): the batch [update of an id the document
\* lacks, add of an id the document lacks] returns exactly one error, the
\* update's "not found", and the document with the new node appended.
C17_BestEffortBatch ==
    (/\ pc = "applied"
     /\ Len(batch) = 2
     /\ batch[1].type = "update" /\ ~HasNode(document, batch[1].cell_id)
     /\ batch[2].type = "add" /\ ~HasNode(document, batch[2].cell_id)) =>
        /\ errors = << [type |-> "update", cellId |-> batch[1].cell_id,
                        message |-> "not found"] >>
        /\ working = Append(document, [id |-> batch[2].cell_id, body |-> batch[2].new_xml])

\* C17 witness: [update c, add b] was applied to a document that holds a alone.
C17_Witness ==
    /\ pc = "applied"
    /\ document = << Node("a", "x") >>
    /\ batch = << Operation("update", "c", "y"), Operation("add", "b", "y") >>
    /\ Len(errors) = 1
    /\ HasNode(working, "b")

\* C18 (P6, update idempotence): applying an update of an existing id once
\* more, right after it was applied, changes neither the document nor the
\* error list, and the id names one node only.
C18_UpdateIdempotent ==
    [][(/\ pc = "applying"
        /\ opIndex' = opIndex + 1
        /\ opIndex >= 1
        /\ batch[opIndex + 1] = batch[opIndex]
        /\ batch[opIndex].type = "update"
        /\ HasNode(working, batch[opIndex].cell_id)) =>
          /\ working' = working
          /\ errors' = errors
          /\ Cardinality({i \in 1..Len(working') : working'[i].id = batch[opIndex].cell_id}) = 1
          /\ \E i \in 1..Len(working') : working'[i] = [id |-> batch[opIndex].cell_id,
                                                        body |-> batch[opIndex].new_xml]]_vars

\* C18 witness: update(a, y) was applied twice to a document whose node a
\* held x, before another node.
C18_Witness ==
    /\ pc = "applied"
    /\ document = << Node("a", "x"), Node("b", "y") >>
    /\ batch = << Operation("update", "a", "y"), Operation("update", "a", "y") >>
    /\ working = << Node("a", "y"), Node("b", "y") >>
    /\ errors = << >>

\* C19 (Scenario B): [delete id, delete id] on a document that holds id
\* returns the document without that node, the other nodes as they were, and
\* exactly one error, the second delete's "not found".
C19_DeleteTwice ==
    (/\ pc = "applied"
     /\ Len(batch) = 2
     /\ batch[1].type = "delete"
     /\ batch[2] = batch[1]
     /\ HasNode(document, batch[1].cell_id)) =>
        /\ ~HasNode(working, batch[1].cell_id)
        /\ working = SelectSeq(document, LAMBDA n : n.id # batch[1].cell_id)
        /\ errors = << [type |-> "delete", cellId |-> batch[1].cell_id,
                        message |-> "not found"] >>

\* C19 witness: [delete a, delete a] was applied to a document that holds a and b.
C19_Witness ==
    /\ pc = "applied"
    /\ document = << Node("a", "x"), Node("b", "y") >>
    /\ batch = << Operation("delete", "a", NO_XML), Operation("delete", "a", NO_XML) >>
    /\ working = << Node("b", "y") >>
    /\ Len(errors) = 1

\* C20: every step of the engine leaves the ids of the working copy unique
\* and the document it was given as it was; the step that applies an add of
\* an id the working copy holds changes nothing but the error list, which
\* gets a "duplicate id" error for it.
C20_UniqueIds ==
    [][/\ \A i, j \in 1..Len(working') : working'[i].id = working'[j].id => i = j
       /\ document' = document
       /\ (/\ opIndex' = opIndex + 1
           /\ batch[opIndex + 1].type = "add"
           /\ \E i \in 1..Len(working) : working[i].id = batch[opIndex + 1].cell_id) =>
              /\ working' = working
              /\ errors' = Append(errors, [type |-> "add",
                                           cellId |-> batch[opIndex + 1].cell_id,
                                           message |-> "duplicate id"])]_vars

\* C20 witness: an add of a, which the document held, was rejected after an
\* add of c was applied.
C20_Witness ==
    /\ pc = "applied"
    /\ document = << Node("a", "x"), Node("b", "y") >>
    /\ batch = << Operation("add", "c", "x"), Operation("add", "a", "y") >>
    /\ working = << Node("a", "x"), Node("b", "y"), Node("c", "x") >>
    /\ Len(errors) = 1
    /\ errors[1].message = "duplicate id"


\* C21: the edit_diagram handler exports the edited document and reports
\* success only when the engine returned no error and onDisplayChart
\* answered no validation error; with a per-operation error nothing is
\* given to onDisplayChart and nothing is exported; per-operation errors and
\* a validation error are reported by different error outputs.
C21_EditAccepted ==
    call.toolName = "edit_diagram" =>
        /\ (exported > 0 \/ \E i \in 1..Len(toolOutputs) : toolOutputs[i].state = "output-available") =>
              /\ errors = << >>
              /\ opIndex = Len(batch)
              /\ validationError = NULL
              /\ displayed = << working >>
              /\ exported = 1
              /\ Len(toolOutputs) = 1
              /\ toolOutputs[1].state = "output-available"
        /\ errors # << >> => (displayed = << >> /\ exported = 0)
        /\ (pc = "returned" /\ errors # << >>) =>
              toolOutputs = << [tool |-> "edit_diagram", state |-> "output-error",
                                text |-> "Some operations failed:", detail |-> errors] >>
        /\ validationError # NULL =>
              /\ exported = 0
              /\ errors = << >>
              /\ toolOutputs = << [tool |-> "edit_diagram", state |-> "output-error",
                                   text |-> "Edit produced invalid XML:",
                                   detail |-> validationError] >>

\* C21 witness: an edit of two operations without error was validated,
\* exported and reported as a success.
C21_Witness ==
    /\ pc = "returned"
    /\ call.toolName = "edit_diagram"
    /\ Len(batch) = 2
    /\ errors = << >>
    /\ working # document
    /\ displayed = << working >>
    /\ exported = 1
    /\ toolOutputs[1].state = "output-available"


\* C29: when onToolCall has ended for a display_diagram, edit_diagram or
\* append_diagram call, addToolOutput was called exactly once, and never
\* more than once before.
C29_OneToolOutput ==
    call.toolName \in {"display_diagram", "edit_diagram", "append_diagram"} =>
        /\ Len(toolOutputs) <= 1
        /\ pc \in {"returned", "threw"} => Len(toolOutputs) = 1


\* C22: tool-input-start is emitted at most once; once it was emitted the
\* session stays in TOOL mode with the kind it announced, no step emits
\* text-start, text-delta or tool-input-start, and a data line with content
\* is relayed as one tool-input-delta holding that content and nothing else.
C22_ModeMonotone ==
    [][/\ Count(out', "tool-input-start") <= 1
       /\ Count(out, "tool-input-start") = 1 =>
             /\ toolCallStarted /\ toolCallStarted'
             /\ detectedToolName = EventsOf(out, "tool-input-start")[1].toolName
             /\ detectedToolName' = detectedToolName
             /\ \A i \in 1..Len(Emitted) :
                    Emitted[i].type \notin {"text-start", "text-delta", "tool-input-start"}
             /\ (LineStep /\ data'.content # << >>) =>
                    ContentEmitted = << [type |-> "tool-input-delta", toolCallId |-> toolCallId,
                                         inputTextDelta |-> data'.content] >>]_vars

\* C22 witness: a session closed in TOOL mode after narration was emitted
\* and after data lines were relayed that came later than the detection.
C22_Witness ==
    /\ pc = "closed"
    /\ toolCallStarted
    /\ Count(out, "tool-input-start") = 1
    /\ Count(out, "text-delta") >= 1
    /\ Count(out, "tool-input-delta") >= 3


\* positions of the events of one type on the output stream
At(type) == {i \in 1..Len(out) : out[i].type = type}

\* a span: at most one start; deltas only after the start and before the
\* end; in a finished session as many ends as starts, the end after the
\* start and before finish
SpanWellFormed(start, delta, end) ==
    /\ Cardinality(At(start)) <= 1
    /\ Cardinality(At(end)) <= Cardinality(At(start))
    /\ At(delta) # {} => At(start) # {}
    /\ \A s \in At(start), d \in At(delta) : s < d
    /\ \A d \in At(delta), e \in At(end) : d < e
    /\ \A s \in At(start), e \in At(end) : s < e
    /\ pc = "closed" =>
          /\ Cardinality(At(end)) = Cardinality(At(start))
          /\ \A e \in At(end) : e < Len(out)

\* C23: the text, reasoning and tool-call spans are well-formed at every
\* moment and closed exactly once before finish in a finished session, and
\* every event of a span carries the id of its span.
C23_SpansWellFormed ==
    /\ SpanWellFormed("text-start", "text-delta", "text-end")
    /\ SpanWellFormed("reasoning-start", "reasoning-delta", "reasoning-end")
    /\ SpanWellFormed("tool-input-start", "tool-input-delta", "tool-input-available")
    /\ \A i \in 1..Len(out) :
          /\ out[i].type \in {"text-start", "text-delta", "text-end"} => out[i].id = textId
          /\ out[i].type \in {"reasoning-start", "reasoning-delta", "reasoning-end"} =>
                out[i].id = reasoningId
          /\ out[i].type \in {"tool-input-start", "tool-input-delta", "tool-input-available"} =>
                out[i].toolCallId = toolCallId

\* C23 witness: a finished session with the three spans, the text span of
\* two deltas closed at the detection.
C23_Witness ==
    /\ pc = "closed"
    /\ Cardinality(At("text-delta")) >= 2
    /\ At("reasoning-delta") # {}
    /\ Cardinality(At("tool-input-delta")) >= 2
    /\ At("text-end") # {} /\ At("reasoning-end") # {} /\ At("tool-input-available") # {}


\* C24: unescaping is the inverse of escaping: the three replacements of the
\* recovery, applied to a markup whose quotes, newlines and backslashes were
\* escaped, give the markup back.
C24_UnescapeInverts == pc = "unescaped" => xmlText = literal


\* C25: when the session is closed, the data of every data line received
\* was handed to processDataLine, the last line included when no line feed
\* ends it.
C25_LastLineProcessed ==
    pc = "closed" => lineLog = DataLog(Split(received))


\* C26 as stated: under every interleaving of the calls of one day the
\* stored dailyReqCount does not exceed the daily request limit, no more
\* calls than that limit were answered allowed: true, and the day was reset
\* by exactly one call.
C26_Original ==
    /\ item.dailyReqCount <= limits.requests
    /\ tally.allowed <= limits.requests
    /\ tally.resets = (IF item.lastResetDate = TODAY THEN 1 ELSE 0)

\* C26 as amended: the stored dailyReqCount does not exceed the daily
\* request limit, it counts the calls answered allowed: true after their
\* conditional update succeeded, which are no more than the limit, every
\* call answered allowed: true beyond them is one whose update was refused
\* and whose read of the item found no limit exceeded, and the day was reset
\* by exactly one call.
C26_CountedWithinLimit ==
    /\ item.dailyReqCount <= limits.requests
    /\ tally.updated <= limits.requests
    /\ tally.updated <= tally.allowed
    /\ tally.resets = (IF item.lastResetDate = TODAY THEN 1 ELSE 0)
    /\ item.lastResetDate = TODAY => item.dailyReqCount = tally.updated
    /\ item.lastResetDate # TODAY => tally.allowed = 0

\* C26 witness: the limit is reached after one reset, a call was refused,
\* and two calls are still under way, one before its increment and one
\* before its read of the item.
C26_Witness ==
    /\ item.lastResetDate = TODAY
    /\ tally.resets = 1
    /\ tally.updated = limits.requests
    /\ tally.denied >= 1
    /\ \E c, d \in BagToSet(calls) : c.at = "increment" /\ d.at = "get"


\* C27: whenever lastMinute holds a minute, tpmCount is the number of tokens
\* recordTokenUsage has recorded for that minute.
C27_TpmOfTheMinute ==
    item.lastMinute # NO_MINUTE => item.tpmCount = recorded[item.lastMinute]


\* C28: between two messages of the user at most MAX_AUTO_RETRY_COUNT turns
\* are resubmitted automatically outside continuation mode: such a
\* resubmission happens only with the counter below the maximum and counts;
\* the counter is 0 after a message of the user, after a turn whose last tool
\* part is not an error, and after a quota check that denies the retry.
C28_RetryBounded ==
    [][ /\ regularRetries' <= MAX_AUTO_RETRY_COUNT
        /\ autoRetryCount' <= MAX_AUTO_RETRY_COUNT
        /\ (pc \in {"idle", "threw"} /\ pc' = "streaming") => autoRetryCount' = 0
        /\ (pc = "returned" /\ pc' # pc) =>
              /\ ~hasToolErrors => (autoRetryCount' = 0 /\ pc' = "idle")
              /\ (decision'.why \in {"token limit", "tpm limit"}) =>
                    (autoRetryCount' = 0 /\ pc' = "idle")
              /\ (pc' = "streaming" /\ partialXml = << >>) =>
                    /\ autoRetryCount < MAX_AUTO_RETRY_COUNT
                    /\ autoRetryCount' = autoRetryCount + 1 ]_vars

\* a second regular error in a row was refused: the limit was reached after
\* one automatic resubmission
C28_Witness ==
    /\ pc = "idle"
    /\ decision = Decision(FALSE, "retry limit")
    /\ regularRetries = MAX_AUTO_RETRY_COUNT
    /\ autoRetryCount = 0
    /\ hasToolErrors


\* C30: the cached port follows its lifecycle: getAllocatedPort gives what is
\* allocated, nothing after resetAllocatedPort; after a findAvailablePort that
\* returned, the port returned is the one allocated; with reuseExisting and
\* the cached port found available that port is returned and kept;
\* getServerUrl throws exactly when no port is allocated; and after a
\* findAvailablePort that threw no port is allocated.
C30_PortLifecycle ==
    /\ result.fn = "none" => allocatedPort = NO_PORT
    /\ result.fn = "getAllocatedPort" => result.value = result.after
    /\ result.fn = "resetAllocatedPort" => result.after = NO_PORT
    /\ result.fn = "getServerUrl" => (result.threw <=> result.after = NO_PORT)
    /\ (result.fn = "findAvailablePort" /\ ~result.threw) => result.value = result.after
    /\ (result.fn = "findAvailablePort" /\ result.reuseExisting /\ result.stillAvailable) =>
          (~result.threw /\ result.value = result.cached /\ result.after = result.cached)
    /\ (result.fn = "findAvailablePort" /\ result.threw) => result.after = NO_PORT


====
